---- MODULE Spec2Model ----
(***************************************************************************)
(* Proposal governance engine of the BCFW security platform.               *)
(*                                                                         *)
(* The model follows the backend as it is served: the FastAPI handlers of  *)
(* backend/main.py call the services of backend/app/services.py, which     *)
(* keep proposals in the SQL table `proposals` and call the in-process     *)
(* MultiSigContract (backend/blockchain/multisig_contract.py) through      *)
(* Web3Manager.  The contract event listener                               *)
(* (backend/blockchain/contract_event_listener.py) writes to the same      *)
(* table.                                                                  *)
(*                                                                         *)
(* Amounts are in micro-ETH.  A database session is a transaction: a       *)
(* handler that raises leaves the table as it was (db.rollback()), a       *)
(* handler that returns has committed every assignment it made.  The       *)
(* in-process contract state is a Python object and is never rolled back.  *)
(*                                                                         *)
(* The database file outlives the process, the contract's proposal table   *)
(* does not (MultiSigContract.__init__ starts with `self.proposals = {}`), *)
(* so the rows found at start-up are an input: Init draws them from the    *)
(* pending rows a deployment can hold, with or without a                   *)
(* contract_proposal_id.                                                   *)
(*                                                                         *)
(* Seven specifications share the variables.  Spec is the life cycle of    *)
(* proposals under API calls and contract events.  PoolSpec is the reward  *)
(* pool under deposits, distributions and executions, from the states the  *)
(* pool's files can hold.  RaceSpec is a group of requests that are in the *)
(* server at the same time, each handler cut where it could be suspended.  *)
(* DetectSpec is the threat model's verdicts and their handling.           *)
(* TrackerSpec is the contribution records under signatures made at        *)
(* different times of the clock.  DurableSpec is the two state files of    *)
(* the contract under failing writes and restarts of the process.          *)
(* FrameSpec is a table of two proposals under Sign and Withdraw.          *)
(***************************************************************************)
EXTENDS Integers, Sequences, FiniteSets, TLC

\* ---------------------------------------------------------------- bounds
MaxProposals == 1
MaxContract == 1
MaxDetections == 1
MaxEvents == 1
MaxPoolCalls == 3
MaxRequests == 3

\* ------------------------------------------------------- program constants
proposal_reward == 10000
signatures_required_default == 2
threshold == 2
auto_distribution_amount == 1000000
auto_min_pool_balance == 1000000
min_reward_amount == 1000
\* THREAT_THRESHOLDS, in thousandths.
high_confidence == 900
medium_high == 800
medium_low == 700
startup_pool_target == 100000000
contract_reserve == 100000

ProposalIds == 1..MaxProposals
ContractIds == 1..MaxContract

valid_managers == {"manager_0", "manager_1", "manager_2"}
\* GANACHE_CONFIG names operator_0 .. operator_5; two of them are kept here.
Operators == {"operator_0", "operator_1"}
\* GANACHE_CONFIG["accounts"]: the roles that have an address.
accounts == valid_managers \cup Operators \cup {"treasury"}
\* config["owners"]: the addresses of manager_0..manager_2.
owners == {"manager_0", "manager_1", "manager_2"}
\* Role strings a request can carry: the managers, an operator, a role with
\* the operator_ prefix that has no account, a role with no known prefix,
\* and the empty/missing role.
RequestRoles == valid_managers \cup {"operator_0", "operator_9", "intruder", ""}

VARIABLES
    db_proposals,        \* table `proposals`: id -> row ("absent" = no row)
    execution_logs,      \* table `execution_logs`: number of rows by
                         \* proposal_id (0 = the rows of automatic blocks)
    detection_logs,      \* number of rows of `threat_detection_logs`
    contract_proposals,  \* MultiSigContract.proposals: id -> proposal
    proposal_counter,    \* MultiSigContract.proposal_counter
    contributions,       \* MultiSigContract.contributions (by manager)
    reward_pool_balance, \* MultiSigContract.reward_pool_balance
    events_handled,      \* number of contract events the listener has handled
    pool_calls,          \* number of reward-pool calls served
    requests,            \* the API requests the event loop holds: what each
                         \* asks, how far its handler has run, its answer
    detection_result,    \* the verdict the threat model gave the last
                         \* simulated attack
    now,                 \* the clock, in seconds
    assets,              \* backend/assets: whether the directory can be
                         \* written, and what reward_pool_state.json and
                         \* contributions_state.json hold
    last                 \* what the last API call answered, and the
                         \* Web3Manager.send_reward calls it made

vars == <<db_proposals, execution_logs, detection_logs, contract_proposals,
          proposal_counter, contributions, reward_pool_balance, events_handled,
          pool_calls, requests, detection_result, now, assets, last>>

\* Everything the operations write, except the record of the last answer.
state == <<db_proposals, execution_logs, detection_logs, contract_proposals,
           proposal_counter, contributions, reward_pool_balance,
           events_handled, assets>>

\* ------------------------------------------------------------ data shapes
\* models.Proposal with its column defaults.  The table has no column for the
\* creator of a proposal; created_by records the creator_role its creation
\* passed on ("" when the creating request carried no role), for the
\* statements that speak of the creator.  No operation reads it.
Proposal(cid, creator) ==
    [status |-> "pending",
     created_by |-> creator,
     signatures_required |-> signatures_required_default,
     signatures_count |-> 0,
     signed_by |-> <<>>,
     reward_paid |-> FALSE,
     reward_recipient |-> "none",
     contract_proposal_id |-> cid,
     approved_at |-> FALSE,
     executed_at |-> FALSE]

NoProposal == [Proposal(0, "") EXCEPT !.status = "absent"]

\* The dict MultiSigContract.create_proposal stores; created_at is the clock
\* at the call.
ContractProposal(amount) ==
    [exists |-> TRUE, amount |-> amount, executed |-> FALSE,
     signature_count |-> 0, signatures |-> {}, created_at |-> now]

NoContractProposal ==
    [ContractProposal(0) EXCEPT !.exists = FALSE, !.created_at = 0]

\* detection_result before any attack has been simulated.
NoDetection ==
    [predicted_class |-> "none", confidence |-> 0, response_level |-> "none"]

\* The record _update_contribution creates on a manager's first signature.
NoContribution ==
    [exists |-> FALSE, total_signatures |-> 0, total_response_time |-> 0,
     quality_score |-> 0, last_signature_time |-> -1]

Range(s) == {s[i] : i \in DOMAIN s}

\* `signed_by = proposal.signed_by or []; signed_by.append(role);
\* proposal.signed_by = signed_by` on the plain JSON column signed_by, as the
\* commit stores it.  An empty list is falsy, so the first append is made to
\* a new list and is stored.  A non-empty list is appended in place and the
\* attribute is set to the object the session loaded: whether the UPDATE
\* carries the column then depends on the ORM comparing the new value with
\* the loaded one, which is the same object (the column is declared without
\* mutation tracking), so both outcomes are drawn (json_flushed).
stored_signed_by(loaded, role, json_flushed) ==
    IF loaded = <<>> \/ json_flushed THEN Append(loaded, role) ELSE loaded

RECURSIVE SumOver(_, _)
SumOver(f, S) ==
    IF S = {} THEN 0
    ELSE LET x == CHOOSE y \in S : TRUE
         IN f[x] + SumOver(f, S \ {x})

\* What an API call answered: ok = it returned a result, otherwise err is the
\* exception it raised and detail the value its message quotes; sent = the
\* Web3Manager.send_reward calls made while it ran.
Answer(op, ok, err, detail, result, sent) ==
    [op |-> op, ok |-> ok, err |-> err, detail |-> detail, result |-> result,
     sent |-> sent]

Failure(op, err, detail) == Answer(op, FALSE, err, detail, "none", {})

StatusOf(pid) == IF pid \in DOMAIN db_proposals THEN db_proposals[pid].status ELSE "absent"

\* ------------------------------------------------ MultiSigContract (in-process)
is_authorized_creator(role) ==
    role \in {"operator_0", "operator_1", "operator_2", "operator_3",
              "operator_4", "manager_0", "manager_1", "manager_2"}

is_authorized_signer(role) == role \in {"manager_0", "manager_1", "manager_2"}

\* The speed part with exclusive upper bounds.
speed_score_exclusive(response_time_seconds) ==
    IF response_time_seconds < 10 THEN 60
    ELSE IF response_time_seconds < 30 THEN 50
    ELSE IF response_time_seconds < 60 THEN 40
    ELSE IF response_time_seconds < 120 THEN 30
    ELSE IF response_time_seconds < 300 THEN 20
    ELSE 10

\* _calculate_quality_score, the speed part: a step function of the seconds
\* between the proposal's creation and the signature.
speed_score(response_time_seconds) ==
    IF response_time_seconds <= 10 THEN 60
    ELSE IF response_time_seconds <= 30 THEN 50
    ELSE IF response_time_seconds <= 60 THEN 40
    ELSE IF response_time_seconds <= 120 THEN 30
    ELSE IF response_time_seconds <= 300 THEN 20
    ELSE 10

\* _calculate_quality_score, the activity part.  minutes_since_last is the
\* time between the last_signature_time handed in and the clock read inside
\* the function; -1 stands for a value datetime.fromisoformat cannot parse
\* (the except branch).
activity_score(minutes_since_last) ==
    IF minutes_since_last < 0 THEN 40
    ELSE IF minutes_since_last <= 10 THEN 40
    ELSE IF minutes_since_last <= 30 THEN 30
    ELSE IF minutes_since_last <= 60 THEN 20
    ELSE 10

\* The two parts each scaled to 0..100 before they are added.
calculate_quality_score_unweighted(response_time_seconds, minutes_since_last) ==
    (speed_score(response_time_seconds) * 100) \div 60
        + (activity_score(minutes_since_last) * 100) \div 40

\* speed_score + activity_score.
calculate_quality_score(response_time_seconds, minutes_since_last) ==
    speed_score(response_time_seconds) + activity_score(minutes_since_last)

\* (datetime.now() - last_time).total_seconds() / 60 for a last_time read
\* from a record (-1 when the record has none): compared with whole minutes
\* only, so the seconds are rounded up.
minutes_since(last_signature_time) ==
    IF last_signature_time < 0 THEN -1
    ELSE (now - last_signature_time + 59) \div 60

\* _update_contribution writing a fresh record on every signature.
update_contribution_restarts(contribs, manager_role, response_time_seconds) ==
    IF manager_role \notin accounts THEN contribs
    ELSE [contribs EXCEPT ![manager_role] =
             [exists |-> TRUE,
              total_signatures |-> 1,
              total_response_time |-> response_time_seconds,
              quality_score |-> calculate_quality_score(response_time_seconds, 0),
              last_signature_time |-> now]]

\* _update_contribution: the record is created on the first signature;
\* last_signature_time is set to the current time before the quality score
\* is computed from it, so the score measures the time since this signature.
update_contribution(contribs, manager_role, response_time_seconds) ==
    IF manager_role \notin accounts THEN contribs
    ELSE LET c == contribs[manager_role]
             stamped == [c EXCEPT !.last_signature_time = now]
         IN [contribs EXCEPT ![manager_role] =
                [exists |-> TRUE,
                 total_signatures |-> c.total_signatures + 1,
                 total_response_time |->
                     c.total_response_time + response_time_seconds,
                 quality_score |->
                     calculate_quality_score(response_time_seconds,
                         minutes_since(stamped.last_signature_time)),
                 last_signature_time |-> stamped.last_signature_time]]

\* _save_contributions_state: contributions_state.json takes the records in
\* memory; an exception of open or json.dump is caught and logged, and the
\* file stays as it was.
save_contributions_state(contribs) ==
    IF assets.writable THEN contribs ELSE assets.contributions_state

\* _save_reward_pool_state: reward_pool_state.json takes the balance in
\* memory; an exception of the write is caught and logged.
save_reward_pool_state(balance) ==
    IF assets.writable THEN balance ELSE assets.reward_pool_state

\* The state files as _initialize_reward_pool_balance and
\* _initialize_contributions have just read them.
Assets(balance, contribs) ==
    [writable |-> TRUE, reward_pool_state |-> balance,
     contributions_state |-> contribs]

\* One Web3Manager.send_reward call, as the ledger saw it.
Transfer(origin, ref, to, amount, ok) ==
    [origin |-> origin, ref |-> ref, to |-> to, amount |-> amount, ok |-> ok]

\* MultiSigContract._execute_proposal: pays proposal["amount"] to the executor
\* and sets `executed` only when the transfer succeeded; a failure comes back
\* as a result dict, never as an exception.
execute_proposal(cproposals, proposal_id, executor_role, reward_ok) ==
    LET p == cproposals[proposal_id]
    IN IF p.signature_count < threshold
       THEN [success |-> FALSE, proposals |-> cproposals, sent |-> {}]
       ELSE [success |-> reward_ok,
             proposals |->
                 IF reward_ok
                 THEN [cproposals EXCEPT ![proposal_id].executed = TRUE]
                 ELSE cproposals,
             sent |-> {Transfer("contract_execute", proposal_id,
                                executor_role, p.amount, reward_ok)}]

\* The error texts of sign_proposal that contain "not authorized".
MentionsNotAuthorized(err) == err = "role_not_authorized"

\* MultiSigContract.sign_proposal, reached through
\* Web3Manager.sign_multisig_proposal.  The checks run in the order of the
\* source; every failure returns {"success": False, "error": ...} and leaves
\* the contract as it was.
contract_sign_proposal(proposal_id, signer_role, response_time_seconds, reward_ok) ==
    LET Failed(err) ==
            [success |-> FALSE, error |-> err, executed |-> FALSE,
             proposals |-> contract_proposals, contributions |-> contributions,
             contributions_state |-> assets.contributions_state,
             sent |-> {}]
    IN IF ~is_authorized_signer(signer_role) THEN Failed("role_not_authorized")
       ELSE IF proposal_id \notin ContractIds
               \/ ~contract_proposals[proposal_id].exists
       THEN Failed("proposal_not_found")
       ELSE IF contract_proposals[proposal_id].executed
       THEN Failed("already_executed")
       ELSE IF signer_role \notin accounts THEN Failed("unknown_signer_role")
       ELSE IF signer_role \notin owners THEN Failed("not_an_owner")
       ELSE IF signer_role \in contract_proposals[proposal_id].signatures
       THEN Failed("already_signed")
       ELSE LET signed ==
                    [contract_proposals EXCEPT
                        ![proposal_id].signatures = @ \cup {signer_role},
                        ![proposal_id].signature_count = @ + 1]
                contribs ==
                    update_contribution(contributions, signer_role,
                                        response_time_seconds)
                crossed == signed[proposal_id].signature_count >= threshold
                ex == execute_proposal(signed, proposal_id, signer_role, reward_ok)
            IN [success |-> TRUE, error |-> "none",
                executed |-> crossed,
                proposals |-> IF crossed THEN ex.proposals ELSE signed,
                contributions |-> contribs,
                contributions_state |-> save_contributions_state(contribs),
                sent |-> IF crossed THEN ex.sent ELSE {}]

\* ------------------------------------------------------- RewardPoolService
\* Twice _calculate_contribution_score (which is signature_score * 0.5 +
\* quality_score * 0.5), to stay in the integers; the shares below are
\* ratios of scores, so the factor cancels.
calculate_contribution_score(total_signatures, quality_score) ==
    LET n10 == total_signatures * 10
        signature_score == IF n10 < 100 THEN n10 ELSE 100
    IN signature_score + quality_score

\* _auto_distribute_on_execution without its test of the pool balance.
auto_distribute_on_execution_unchecked(contribs, balance, ref, transfer_ok) ==
    LET eligible == {m \in valid_managers : contribs[m].total_signatures > 0}
        score == [m \in valid_managers |->
                     calculate_contribution_score(contribs[m].total_signatures,
                                                  contribs[m].quality_score)]
        total_contribution_score == SumOver(score, eligible)
        reward_amount ==
            [m \in eligible |->
                (score[m] * auto_distribution_amount) \div total_contribution_score]
        attempted == {m \in eligible : reward_amount[m] > min_reward_amount}
        paid == attempted \cap transfer_ok
    IN IF total_contribution_score = 0
       THEN [success |-> TRUE, sent |-> {}, balance |-> balance,
             saved |-> FALSE]
       ELSE [success |-> TRUE, saved |-> TRUE,
             sent |-> {Transfer("auto_distribute", ref, m, reward_amount[m],
                                m \in transfer_ok) : m \in attempted},
             balance |-> balance - SumOver(reward_amount, paid)]

\* _auto_distribute_on_execution subtracting every transfer it attempted,
\* confirmed or not.
auto_distribute_on_execution_debits_attempted(contribs, balance, ref, transfer_ok) ==
    LET eligible == {m \in valid_managers : contribs[m].total_signatures > 0}
        score == [m \in valid_managers |->
                     calculate_contribution_score(contribs[m].total_signatures,
                                                  contribs[m].quality_score)]
        total_contribution_score == SumOver(score, eligible)
        reward_amount ==
            [m \in eligible |->
                (score[m] * auto_distribution_amount) \div total_contribution_score]
        attempted == {m \in eligible : reward_amount[m] > min_reward_amount}
    IN IF total_contribution_score = 0
       THEN [success |-> TRUE, sent |-> {}, balance |-> balance,
             saved |-> FALSE]
       ELSE IF balance < auto_min_pool_balance
       THEN [success |-> FALSE, sent |-> {}, balance |-> balance,
             saved |-> FALSE]
       ELSE [success |-> TRUE, saved |-> TRUE,
             sent |-> {Transfer("auto_distribute", ref, m, reward_amount[m],
                                m \in transfer_ok) : m \in attempted},
             balance |-> balance - SumOver(reward_amount, attempted)]

\* _auto_distribute_on_execution.  transfer_ok is the set of managers the
\* ledger pays successfully in this run.
auto_distribute_on_execution(contribs, balance, ref, transfer_ok) ==
    LET eligible == {m \in valid_managers : contribs[m].total_signatures > 0}
        score == [m \in valid_managers |->
                     calculate_contribution_score(contribs[m].total_signatures,
                                                  contribs[m].quality_score)]
        total_contribution_score == SumOver(score, eligible)
        reward_amount ==
            [m \in eligible |->
                (score[m] * auto_distribution_amount) \div total_contribution_score]
        attempted == {m \in eligible : reward_amount[m] > min_reward_amount}
        paid == attempted \cap transfer_ok
        total_distributed == SumOver(reward_amount, paid)
    IN IF total_contribution_score = 0
       THEN [success |-> TRUE, sent |-> {}, balance |-> balance,
             saved |-> FALSE]
       ELSE IF balance < auto_min_pool_balance
       THEN [success |-> FALSE, sent |-> {}, balance |-> balance,
             saved |-> FALSE]
       ELSE [success |-> TRUE, saved |-> TRUE,
             sent |-> {Transfer("auto_distribute", ref, m, reward_amount[m],
                                m \in transfer_ok) : m \in attempted},
             balance |-> balance - total_distributed]

\* The sum of the amounts of a set of transfers.
RECURSIVE SumAmounts(_)
SumAmounts(S) ==
    IF S = {} THEN 0
    ELSE LET t == CHOOSE x \in S : TRUE
         IN t.amount + SumAmounts(S \ {t})

\* MultiSigContract.distribute_contribution_rewards, reached through
\* RewardPoolService.distribute_contribution_rewards and
\* Web3Manager.distribute_contribution_rewards.  The score of a manager with
\* a contribution record is total_signatures + quality_score / 100 (here
\* times 100, to stay in the integers; the shares are ratios of scores).
\* Everything above the reserve is split; each successful transfer is
\* subtracted from the balance as it is confirmed.
contract_distribute_contribution_rewards(contribs, balance, transfer_ok) ==
    LET recorded == {m \in valid_managers : contribs[m].exists}
        score == [m \in valid_managers |->
                     contribs[m].total_signatures * 100 + contribs[m].quality_score]
        total_contribution_score == SumOver(score, recorded)
        available_rewards ==
            IF balance - contract_reserve > 0 THEN balance - contract_reserve ELSE 0
        reward_amount ==
            [m \in recorded |->
                (available_rewards * score[m]) \div total_contribution_score]
        attempted == {m \in recorded :
                         score[m] > 0 /\ reward_amount[m] > min_reward_amount}
        paid == attempted \cap transfer_ok
    IN IF balance <= contract_reserve
       THEN [success |-> FALSE, sent |-> {}, balance |-> balance]
       ELSE IF total_contribution_score = 0
       THEN [success |-> TRUE, sent |-> {}, balance |-> balance]
       ELSE [success |-> TRUE,
             sent |-> {Transfer("contract_distribute", 0, m, reward_amount[m],
                                m \in transfer_ok) : m \in attempted},
             balance |-> balance - SumOver(reward_amount, paid)]

\* MultiSigContract.deposit_to_reward_pool: the amount is sent from from_role
\* to the treasury account and added to the balance when that transfer is
\* confirmed.  send_reward fails for a role without account.
contract_deposit_to_reward_pool(balance, from_role, amount_eth, deposit_ok) ==
    LET confirmed == from_role \in accounts /\ deposit_ok
    IN [success |-> confirmed,
        sent |-> {Transfer("deposit", 0, "treasury", amount_eth, confirmed)},
        balance |-> IF confirmed THEN balance + amount_eth ELSE balance,
        saved |-> confirmed]

\* ------------------------------------------------------------- start-up
\* Rows a database can hold when the process starts: ids 1..k, pending and
\* unsigned, each with no contract_proposal_id (0 stands for NULL), as
\* create_manual_proposal leaves it for a request without role, or with one
\* of its own, as _create_auto_proposal (creator_role "system") links it.
InitialTables ==
    {t \in [ProposalIds -> {NoProposal, Proposal(0, "")} \cup {Proposal(c, "system") : c \in ContractIds}] :
        /\ \A i, j \in ProposalIds :
              (i < j /\ t[j].status # "absent") => t[i].status # "absent"
        /\ \A i, j \in ProposalIds :
              (i # j /\ t[i].contract_proposal_id # 0)
                  => t[i].contract_proposal_id # t[j].contract_proposal_id}

\* lifespan(): the pool is topped up to 100 ETH when it holds less than 50;
\* it stays empty when that deposit fails.
InitialPoolBalances == {0, startup_pool_target}

Init ==
    /\ now = 0
    /\ detection_result = NoDetection
    /\ db_proposals \in InitialTables
    /\ execution_logs = [p \in 0..MaxProposals |-> 0]
    /\ detection_logs = 0
    /\ contract_proposals = [c \in ContractIds |-> NoContractProposal]
    /\ proposal_counter = 1
    /\ contributions = [m \in accounts |-> NoContribution]
    /\ reward_pool_balance \in InitialPoolBalances
    /\ assets = Assets(reward_pool_balance, contributions)
    /\ events_handled = 0
    /\ pool_calls = 0
    /\ requests = <<>>
    /\ last = Answer("start", TRUE, "none", "none", "none", {})

\* ------------------------------------------------------- proposal creation
\* Parameters of Web3Manager.create_multisig_proposal, and the keywords the
\* two call sites in services.py pass to it.  Python raises TypeError for a
\* keyword the function does not declare.
create_multisig_proposal_params == {"target_role", "amount_eth", "data"}
service_call_keywords == {"target_role", "amount_eth", "data", "creator_role"}
RaisesTypeError(keywords, params) == ~(keywords \subseteq params)

\* The id the table gives the next row (0 when the model's table is full).
FreeProposalId ==
    IF \E i \in ProposalIds : db_proposals[i].status = "absent"
    THEN CHOOSE i \in ProposalIds :
            /\ db_proposals[i].status = "absent"
            /\ \A j \in ProposalIds : j < i => db_proposals[j].status # "absent"
    ELSE 0

ResponseLevels ==
    {"automatic_response", "auto_create_proposal", "manual_decision_alert",
     "silent_logging"}

\* _determine_response_level with the three comparisons made inclusive.
determine_response_level_inclusive(confidence) ==
    IF confidence >= high_confidence THEN "automatic_response"
    ELSE IF confidence >= medium_high THEN "auto_create_proposal"
    ELSE IF confidence >= medium_low THEN "manual_decision_alert"
    ELSE "silent_logging"

\* ThreatDetectionModel._determine_response_level; confidence in thousandths.
determine_response_level(confidence) ==
    IF confidence > high_confidence THEN "automatic_response"
    ELSE IF confidence > medium_high THEN "auto_create_proposal"
    ELSE IF confidence > medium_low THEN "manual_decision_alert"
    ELSE "silent_logging"

\* ThreatDetectionModel.predict_threat after the two classifiers have
\* answered: binary_pred is 0 for Benign and 1 for Malicious, attack_type the
\* most probable attack class, confidence the Benign probability or the
\* product of the attack and Malicious probabilities.  The response level
\* is computed from the confidence alone.
predict_threat(binary_pred, attack_type, confidence) ==
    [predicted_class |-> IF binary_pred = 0 THEN "Benign" ELSE attack_type,
     confidence |-> confidence,
     response_level |-> determine_response_level(confidence)]

\* _handle_detection_response: the action_taken of each response level.
action_taken(response_level) ==
    CASE response_level = "automatic_response" -> "automatic_block"
      [] response_level = "auto_create_proposal" -> "auto_proposal_created"
      [] response_level = "manual_decision_alert" -> "manual_alert"
      [] OTHER -> "silent_logging"

\* simulate_attack with a handler that opens a proposal for every tier but
\* the automatic one.
simulate_attack_proposes_on_alert(response_level) ==
    /\ detection_logs < MaxDetections
    /\ detection_logs' = detection_logs + 1
    /\ execution_logs' =
           IF response_level = "automatic_response"
           THEN [execution_logs EXCEPT ![0] = @ + 1]
           ELSE execution_logs
    /\ db_proposals' =
           IF response_level # "automatic_response" /\ FreeProposalId # 0
           THEN [db_proposals EXCEPT ![FreeProposalId] = Proposal(0, "system")]
           ELSE db_proposals
    /\ last' = Answer("simulate_attack", TRUE, "none", response_level,
                      action_taken(response_level), {})
    /\ UNCHANGED <<contract_proposals, proposal_counter, contributions,
                   reward_pool_balance, events_handled, assets>>

\* ThreatDetectionService.simulate_attack with the response level the model
\* reported.  _create_auto_proposal raises before anything is committed, and
\* simulate_attack rolls the session back.
simulate_attack(response_level) ==
    /\ detection_logs < MaxDetections
    /\ IF response_level = "auto_create_proposal"
       THEN IF RaisesTypeError(service_call_keywords, create_multisig_proposal_params)
            THEN /\ last' = Failure("simulate_attack", "TypeError", response_level)
                 /\ UNCHANGED state
            ELSE /\ FreeProposalId # 0
                 /\ proposal_counter \in ContractIds
                 /\ db_proposals' =
                        [db_proposals EXCEPT ![FreeProposalId] = Proposal(proposal_counter, "system")]
                 /\ contract_proposals' =
                        [contract_proposals EXCEPT ![proposal_counter] =
                            ContractProposal(proposal_reward)]
                 /\ proposal_counter' = proposal_counter + 1
                 /\ detection_logs' = detection_logs + 1
                 /\ last' = Answer("simulate_attack", TRUE, "none", response_level,
                                   action_taken(response_level), {})
                 /\ UNCHANGED <<execution_logs, contributions, reward_pool_balance,
                           events_handled, assets>>
       ELSE /\ detection_logs' = detection_logs + 1
            /\ execution_logs' =
                   IF response_level = "automatic_response"
                   THEN [execution_logs EXCEPT ![0] = @ + 1]
                   ELSE execution_logs
            /\ last' = Answer("simulate_attack", TRUE, "none", response_level,
                              action_taken(response_level), {})
            /\ UNCHANGED <<db_proposals, contract_proposals, proposal_counter,
                           contributions, reward_pool_balance,
                           events_handled, assets>>

\* POST /api/proposals/create -> ProposalService.create_manual_proposal.
\* operator_role "" is a request without one.
create_manual_proposal(detection_id, operator_role) ==
    LET Fail(err) ==
            /\ last' = Failure("create_manual_proposal", err, "none")
            /\ UNCHANGED state
    IN IF detection_id = 0 THEN Fail("detection_id_required")
       ELSE IF operator_role # ""
               /\ operator_role \notin Operators \cup {"operator_9"} \cup valid_managers
       THEN Fail("invalid_role_format")
       ELSE IF detection_id > detection_logs THEN Fail("detection_not_found")
       ELSE IF operator_role # ""
               /\ RaisesTypeError(service_call_keywords, create_multisig_proposal_params)
       THEN Fail("TypeError")
       ELSE /\ FreeProposalId # 0
            /\ operator_role = ""
            /\ db_proposals' = [db_proposals EXCEPT ![FreeProposalId] = Proposal(0, operator_role)]
            /\ last' = Answer("create_manual_proposal", TRUE, "none", "none",
                              "created", {})
            /\ UNCHANGED <<execution_logs, detection_logs, contract_proposals,
                           proposal_counter, contributions, reward_pool_balance,
                           events_handled, assets>>

\* Web3Manager.create_multisig_proposal(target_role, amount_eth) ->
\* MultiSigContract.create_proposal(target, amount, data) with no creator
\* role: the next counter value becomes the id of a fresh, unsigned proposal.
create_multisig_proposal(target_role, amount_eth) ==
    IF target_role \notin accounts
    THEN /\ last' = Failure("create_multisig_proposal", "unknown_target_role",
                            "none")
         /\ UNCHANGED state
    ELSE /\ proposal_counter \in ContractIds
         /\ contract_proposals' =
                [contract_proposals EXCEPT ![proposal_counter] =
                    ContractProposal(amount_eth)]
         /\ proposal_counter' = proposal_counter + 1
         /\ last' = Answer("create_multisig_proposal", TRUE, "none", "none",
                           "created", {})
         /\ UNCHANGED <<db_proposals, execution_logs, detection_logs,
                        contributions, reward_pool_balance,
                           events_handled, assets>>

\* --------------------------------------------------------- ProposalService
\* Signing latencies (seconds between the proposal's creation and the
\* signature) the clock can report.
ResponseTimes == {5}

\* _execute_approved_proposal paying the first signer of the proposal
\* instead of the signer of the call.
execute_approved_proposal_first_signer(row, pid, final_signer, contribs, balance, reward_ok, transfer_ok) ==
    LET first == row.signed_by[1]
        paid == IF reward_ok
                THEN [row EXCEPT !.reward_paid = TRUE,
                                 !.reward_recipient = first]
                ELSE row
        dist == auto_distribute_on_execution(contribs, balance, pid, transfer_ok)
    IN [row |-> [paid EXCEPT !.executed_at = TRUE],
        log |-> pid,
        sent |-> {Transfer("service_execute", pid, first,
                           proposal_reward, reward_ok)} \cup dist.sent,
        balance |-> dist.balance,
        saved |-> dist.saved]

\* _execute_approved_proposal running the contribution-based distribution
\* twice.
execute_approved_proposal_distributes_twice(row, pid, final_signer, contribs, balance, reward_ok, transfer_ok) ==
    LET paid == IF reward_ok
                THEN [row EXCEPT !.reward_paid = TRUE,
                                 !.reward_recipient = final_signer]
                ELSE row
        dist == auto_distribute_on_execution(contribs, balance, pid, transfer_ok)
        again == auto_distribute_on_execution(contribs, dist.balance, pid,
                                              transfer_ok)
    IN [row |-> [paid EXCEPT !.executed_at = TRUE],
        log |-> pid,
        sent |-> {Transfer("service_execute", pid, final_signer,
                           proposal_reward, reward_ok)}
                     \cup dist.sent \cup again.sent,
        balance |-> again.balance,
        saved |-> dist.saved \/ again.saved]

\* ProposalService._execute_approved_proposal: writes the execution log, pays
\* the base reward to the final signer, sets executed_at whether or not the
\* payment succeeded, then runs the contribution-based distribution.
execute_approved_proposal(row, pid, final_signer, contribs, balance, reward_ok, transfer_ok) ==
    LET paid == IF reward_ok
                THEN [row EXCEPT !.reward_paid = TRUE,
                                 !.reward_recipient = final_signer]
                ELSE row
        dist == auto_distribute_on_execution(contribs, balance, pid, transfer_ok)
    IN [row |-> [paid EXCEPT !.executed_at = TRUE],
        log |-> pid,
        sent |-> {Transfer("service_execute", pid, final_signer,
                           proposal_reward, reward_ok)} \cup dist.sent,
        balance |-> dist.balance,
        saved |-> dist.saved]

\* The handler without its role check.
sign_role_is_valid_unchecked(manager_role) == TRUE

\* The role check of the POST /api/proposals/{id}/sign handler.
sign_role_is_valid(manager_role) == manager_role \in valid_managers

\* sign_proposal without its `manager_role in proposal.signed_by` check.
has_signed_unchecked(row, manager_role) == FALSE

\* The check of ProposalService.sign_proposal that the manager has not signed.
has_signed(row, manager_role) == manager_role \in Range(row.signed_by)

\* The status test letting an approved proposal through.
is_pending_or_approved(status) == status \in {"pending", "approved"}

\* `proposal.status != "pending"` of sign_proposal and withdraw_proposal.
is_pending(status) == status = "pending"

\* The test of ProposalService.sign_proposal that the proposal passes.
threshold_reached(row) == row.signatures_count >= row.signatures_required

\* POST /api/proposals/{id}/sign -> ProposalService.sign_proposal.
\* contract_reward_ok, reward_ok and transfer_ok are the ledger's answers to
\* the transfers this call may issue.
sign_proposal(proposal_id, manager_role, response_time_seconds, contract_reward_ok, reward_ok, transfer_ok, json_flushed) ==
    LET before == StatusOf(proposal_id)
        Fail(err, detail) ==
            /\ last' = Failure("sign_proposal", err, detail)
            /\ UNCHANGED state
        row == db_proposals[proposal_id]
        linked == row.contract_proposal_id # 0
        ms == contract_sign_proposal(row.contract_proposal_id, manager_role,
                                     response_time_seconds, contract_reward_ok)
    IN IF ~sign_role_is_valid(manager_role)
       THEN Fail("invalid_manager_role", "none")
       ELSE IF before = "absent" THEN Fail("proposal_not_found", "none")
       ELSE IF ~is_pending(before) THEN Fail("status_not_signable", before)
       ELSE IF has_signed(row, manager_role) THEN Fail("already_signed", "none")
       ELSE IF linked /\ ~ms.success /\ MentionsNotAuthorized(ms.error)
       THEN Fail("no_permission", "none")
       ELSE LET cprops == IF linked THEN ms.proposals ELSE contract_proposals
                contribs == IF linked THEN ms.contributions ELSE contributions
                csent == IF linked THEN ms.sent ELSE {}
                signed_by == Append(row.signed_by, manager_role)
                signed == [row EXCEPT
                              !.signed_by = stored_signed_by(row.signed_by,
                                                manager_role, json_flushed),
                              !.signatures_count = Len(signed_by)]
                crossed == threshold_reached(signed)
                ex == execute_approved_proposal(signed, proposal_id, manager_role,
                                                contribs, reward_pool_balance,
                                                reward_ok, transfer_ok)
            IN /\ contract_proposals' = cprops
               /\ contributions' = contribs
               /\ db_proposals' =
                      [db_proposals EXCEPT ![proposal_id] =
                          IF crossed
                          THEN [ex.row EXCEPT !.status = "approved",
                                              !.approved_at = TRUE]
                          ELSE signed]
               /\ execution_logs' =
                      IF crossed THEN [execution_logs EXCEPT ![ex.log] = @ + 1]
                      ELSE execution_logs
               /\ reward_pool_balance' =
                      IF crossed THEN ex.balance ELSE reward_pool_balance
               /\ assets' =
                      [assets EXCEPT
                          !.contributions_state =
                              IF linked THEN ms.contributions_state ELSE @,
                          !.reward_pool_state =
                              IF crossed /\ ex.saved
                              THEN save_reward_pool_state(ex.balance) ELSE @]
               /\ last' = Answer("sign_proposal", TRUE, "none", "none",
                                 IF crossed THEN "approved_and_executed"
                                 ELSE "signed",
                                 csent \cup (IF crossed THEN ex.sent ELSE {}))
               /\ UNCHANGED <<detection_logs, proposal_counter, events_handled>>

\* The requester test of ProposalService.withdraw_proposal: the role string
\* starts with "operator_".
may_withdraw(operator_role) == operator_role \in Operators \cup {"operator_9"}

\* withdraw_proposal clearing the signatures of the proposal it withdraws.
withdraw_proposal_resets_signatures(proposal_id, operator_role) ==
    LET before == StatusOf(proposal_id)
        Fail(err, detail) ==
            /\ last' = Failure("withdraw_proposal", err, detail)
            /\ UNCHANGED state
    IN IF operator_role = "" THEN Fail("operator_role_required", "none")
       ELSE IF before = "absent" THEN Fail("proposal_not_found", "none")
       ELSE IF ~is_pending(before) THEN Fail("status_not_withdrawable", before)
       ELSE IF ~may_withdraw(operator_role) THEN Fail("only_operators", "none")
       ELSE /\ db_proposals' = [db_proposals EXCEPT ![proposal_id].status = "withdrawn",
                                                ![proposal_id].signed_by = <<>>,
                                                ![proposal_id].signatures_count = 0]
            /\ last' = Answer("withdraw_proposal", TRUE, "none", "none",
                              "withdrawn", {})
            /\ UNCHANGED <<execution_logs, detection_logs, contract_proposals,
                           proposal_counter, contributions, reward_pool_balance,
                           events_handled, assets>>

\* POST /api/proposals/{id}/withdraw -> ProposalService.withdraw_proposal.
withdraw_proposal(proposal_id, operator_role) ==
    LET before == StatusOf(proposal_id)
        Fail(err, detail) ==
            /\ last' = Failure("withdraw_proposal", err, detail)
            /\ UNCHANGED state
    IN IF operator_role = "" THEN Fail("operator_role_required", "none")
       ELSE IF before = "absent" THEN Fail("proposal_not_found", "none")
       ELSE IF ~is_pending(before) THEN Fail("status_not_withdrawable", before)
       ELSE IF ~may_withdraw(operator_role) THEN Fail("only_operators", "none")
       ELSE /\ db_proposals' = [db_proposals EXCEPT ![proposal_id].status = "withdrawn"]
            /\ last' = Answer("withdraw_proposal", TRUE, "none", "none",
                              "withdrawn", {})
            /\ UNCHANGED <<execution_logs, detection_logs, contract_proposals,
                           proposal_counter, contributions, reward_pool_balance,
                           events_handled, assets>>

\* POST /api/proposals/{id}/reject: after the role checks the handler calls
\* proposal_service.reject_proposal.  class ProposalService defines
\* create_manual_proposal, sign_proposal, _execute_approved_proposal,
\* get_pending_proposals, get_proposal_history and withdraw_proposal only, so
\* the attribute lookup raises AttributeError and the handler answers
\* HTTP 500.
reject_proposal(proposal_id, manager_role) ==
    LET Fail(err, detail) ==
            /\ last' = Failure("reject_proposal", err, detail)
            /\ UNCHANGED state
    IN IF manager_role = "" THEN Fail("manager_role_required", "none")
       ELSE IF manager_role \notin valid_managers
       THEN Fail("invalid_manager_role", "none")
       ELSE Fail("AttributeError", "reject_proposal")

\* --------------------------------------------------- ContractEventListener
\* Signer addresses an on-chain event can carry: the owners' addresses and
\* an address no role of Web3Manager.accounts has.
EventAddresses == owners \cup {"unknown_address"}

\* _address_to_role: the role whose account has that address, or None.
address_to_role(address) == IF address \in accounts THEN address ELSE "None"

\* db.query(Proposal).filter(contract_proposal_id == id).first(); 0 = None.
RowOfContract(contract_proposal_id) ==
    IF \E i \in ProposalIds :
          /\ db_proposals[i].status # "absent"
          /\ db_proposals[i].contract_proposal_id = contract_proposal_id
    THEN CHOOSE i \in ProposalIds :
            /\ db_proposals[i].status # "absent"
            /\ db_proposals[i].contract_proposal_id = contract_proposal_id
            /\ \A j \in ProposalIds :
                  (j < i /\ db_proposals[j].status # "absent")
                      => db_proposals[j].contract_proposal_id # contract_proposal_id
    ELSE 0

\* The 'signed' branch without its `signer_role not in signed_by` test.
is_new_signer_unchecked(signed_by, signer_role) == signer_role # "None"

\* The test of the 'signed' branch: `signer_role and signer_role not in
\* signed_by`.
is_new_signer(signed_by, signer_role) ==
    signer_role # "None" /\ signer_role \notin Range(signed_by)

\* _sync_proposal_to_db(db, contract_proposal_id, action, actor): the table
\* it commits.  chain_ok = contract_manager.get_proposal returned the proposal.
sync_proposal_to_db(contract_proposal_id, action, actor, chain_ok, json_flushed) ==
    LET pid == RowOfContract(contract_proposal_id)
        row == db_proposals[pid]
        role == address_to_role(actor)
        signed_by == Append(row.signed_by, role)
    IN IF pid = 0 \/ ~chain_ok THEN db_proposals
       ELSE IF action = "created"
       THEN [db_proposals EXCEPT ![pid].status = "pending"]
       ELSE IF action = "signed"
       THEN IF is_new_signer(row.signed_by, role)
            THEN [db_proposals EXCEPT
                     ![pid].signed_by =
                         stored_signed_by(row.signed_by, role, json_flushed),
                     ![pid].signatures_count = Len(signed_by)]
            ELSE db_proposals
       ELSE IF action = "executed"
       THEN [db_proposals EXCEPT ![pid].status = "executed",
                                 ![pid].approved_at = TRUE]
       ELSE db_proposals

\* The listener touches nothing but the table; "synced" stands for a commit
\* that changed it.
ListenerFrame(op) ==
    /\ events_handled < MaxEvents
    /\ events_handled' = events_handled + 1
    /\ last' = Answer(op, TRUE, "none", "none",
                      IF db_proposals' # db_proposals THEN "synced" ELSE "none",
                      {})
    /\ UNCHANGED <<execution_logs, detection_logs, contract_proposals,
                   proposal_counter, contributions, reward_pool_balance,
                   assets>>

\* _handle_proposal_created: a ProposalCreated event.
handle_proposal_created(contract_proposal_id, chain_ok) ==
    /\ db_proposals' = sync_proposal_to_db(contract_proposal_id, "created",
                                           "unknown_address", chain_ok, TRUE)
    /\ ListenerFrame("handle_proposal_created")

\* _handle_proposal_signed: a ProposalSigned event.
handle_proposal_signed(contract_proposal_id, signer, chain_ok, json_flushed) ==
    /\ db_proposals' = sync_proposal_to_db(contract_proposal_id, "signed",
                                           signer, chain_ok, json_flushed)
    /\ ListenerFrame("handle_proposal_signed")

\* _handle_proposal_executed: a ProposalExecuted event.  The
\* _create_execution_log that follows builds ExecutionLog with the keywords
\* `success` and `response_data`, which the model class does not have: the
\* constructor raises, the handler logs it, no row is written.
handle_proposal_executed(contract_proposal_id, executor, chain_ok) ==
    /\ db_proposals' = sync_proposal_to_db(contract_proposal_id, "executed",
                                           executor, chain_ok, TRUE)
    /\ ListenerFrame("handle_proposal_executed")

\* ContractSyncService._ensure_proposal_in_db for one proposal read from the
\* chain at start of the sync service; chain_executed is its `executed` flag.
ensure_proposal_in_db(contract_proposal_id, chain_executed) ==
    LET pid == RowOfContract(contract_proposal_id)
    IN /\ db_proposals' =
              IF pid # 0 /\ chain_executed /\ db_proposals[pid].status # "executed"
              THEN [db_proposals EXCEPT ![pid].status = "executed",
                                        ![pid].approved_at = TRUE]
              ELSE db_proposals
       /\ ListenerFrame("ensure_proposal_in_db")

\* ------------------------------------------------------ reward pool calls
\* POST /api/reward-pool/deposit -> RewardPoolService.deposit_to_reward_pool.
\* A deposit the ledger refuses is answered with success False, not with an
\* error.
deposit_to_reward_pool(from_role, amount, deposit_ok) ==
    IF amount <= 0
    THEN /\ last' = Failure("deposit_to_reward_pool", "amount_not_positive", "none")
         /\ UNCHANGED state
    ELSE LET d == contract_deposit_to_reward_pool(reward_pool_balance, from_role,
                                                  amount, deposit_ok)
         IN /\ reward_pool_balance' = d.balance
            /\ assets' =
                   [assets EXCEPT !.reward_pool_state =
                       IF d.saved THEN save_reward_pool_state(d.balance) ELSE @]
            /\ last' = Answer("deposit_to_reward_pool", TRUE, "none", "none",
                              IF d.success THEN "deposited" ELSE "not_deposited",
                              d.sent)
            /\ UNCHANGED <<db_proposals, execution_logs, detection_logs,
                           contract_proposals, proposal_counter, contributions,
                           events_handled>>

\* POST /api/test/auto-distribute -> RewardPoolService._auto_distribute_on_execution.
test_auto_distribute(transfer_ok) ==
    LET d == auto_distribute_on_execution(contributions, reward_pool_balance, 0,
                                          transfer_ok)
    IN /\ reward_pool_balance' = d.balance
       /\ assets' =
              [assets EXCEPT !.reward_pool_state =
                  IF d.saved THEN save_reward_pool_state(d.balance) ELSE @]
       /\ last' = Answer("test_auto_distribute", TRUE, "none", "none",
                         IF d.success THEN "distributed" ELSE "not_distributed",
                         d.sent)
       /\ UNCHANGED <<db_proposals, execution_logs, detection_logs,
                      contract_proposals, proposal_counter, contributions,
                      events_handled>>

\* RewardPoolService.distribute_contribution_rewards(admin_role): admin_role
\* is passed down and read nowhere.  The contract subtracts from
\* reward_pool_balance and does not call _save_reward_pool_state.
distribute_contribution_rewards(admin_role, transfer_ok) ==
    LET d == contract_distribute_contribution_rewards(contributions,
                                                      reward_pool_balance,
                                                      transfer_ok)
    IN /\ reward_pool_balance' = d.balance
       /\ last' = Answer("distribute_contribution_rewards", TRUE, "none", "none",
                         IF d.success THEN "distributed" ELSE "not_distributed",
                         d.sent)
       /\ UNCHANGED <<db_proposals, execution_logs, detection_logs,
                      contract_proposals, proposal_counter, contributions,
                      events_handled, assets>>

\* ------------------------------------------------------------ specification
\* What a sign call asks of its environment.  A call refused by its checks
\* asks nothing; the ledger is asked for the base reward and the
\* distribution only by the call that reaches signatures_required, for the
\* contract's reward only by the call that reaches the contract's threshold;
\* the stored list is in question only when the loaded one is not empty.
SignIsAccepted(pid, role) ==
    /\ sign_role_is_valid(role)
    /\ is_pending(StatusOf(pid))
    /\ ~has_signed(db_proposals[pid], role)

SignExecutes(pid, role) ==
    /\ SignIsAccepted(pid, role)
    /\ Len(db_proposals[pid].signed_by) + 1 >= db_proposals[pid].signatures_required

SignExecutesContract(pid, role) ==
    /\ SignIsAccepted(pid, role)
    /\ db_proposals[pid].contract_proposal_id \in ContractIds
    /\ contract_proposals[db_proposals[pid].contract_proposal_id].signature_count + 1
           >= threshold

SignAppendsInPlace(pid, role) ==
    /\ SignIsAccepted(pid, role)
    /\ db_proposals[pid].signed_by # <<>>

\* The sets of managers the ledger pays when a distribution runs: all of
\* them, or manager_0 alone (every other transfer fails).
LedgerAnswers == {valid_managers, {"manager_0"}}

SimulateAttack ==
    \E level \in ResponseLevels :
        simulate_attack(level) /\ UNCHANGED <<pool_calls, requests, detection_result, now>>

CreateManualProposal ==
    \E detection_id \in 0..MaxDetections, role \in {"", "operator_0", "intruder"} :
        create_manual_proposal(detection_id, role) /\ UNCHANGED <<pool_calls, requests, detection_result, now>>

CreateMultisigProposal ==
    \E target \in {"manager_0", "intruder"} :
        create_multisig_proposal(target, proposal_reward) /\ UNCHANGED <<pool_calls, requests, detection_result, now>>

\* The call Sign(pid, role) under every answer of its environment.
SignCall(pid, role) ==
    \E rt \in ResponseTimes,
       contract_reward_ok \in
           IF SignExecutesContract(pid, role) THEN BOOLEAN ELSE {TRUE},
       reward_ok \in IF SignExecutes(pid, role) THEN BOOLEAN ELSE {TRUE},
       transfer_ok \in
           IF SignExecutes(pid, role) THEN LedgerAnswers ELSE {valid_managers},
       json_flushed \in
           IF SignAppendsInPlace(pid, role) THEN BOOLEAN ELSE {TRUE} :
        sign_proposal(pid, role, rt, contract_reward_ok, reward_ok, transfer_ok,
                      json_flushed)

SignProposal ==
    \E pid \in ProposalIds, role \in RequestRoles :
        SignCall(pid, role) /\ UNCHANGED <<pool_calls, requests, detection_result, now>>

WithdrawProposal ==
    \E pid \in ProposalIds, role \in {"operator_0", "operator_9", "manager_0", ""} :
        withdraw_proposal(pid, role) /\ UNCHANGED <<pool_calls, requests, detection_result, now>>

RejectProposal ==
    \E pid \in ProposalIds, role \in {"manager_0", "manager_2", "intruder", ""} :
        reject_proposal(pid, role) /\ UNCHANGED <<pool_calls, requests, detection_result, now>>

HandleProposalCreated ==
    \E cid \in ContractIds, chain_ok \in BOOLEAN :
        handle_proposal_created(cid, chain_ok) /\ UNCHANGED <<pool_calls, requests, detection_result, now>>

HandleProposalSigned ==
    \E cid \in ContractIds, signer \in EventAddresses, chain_ok \in BOOLEAN,
       json_flushed \in BOOLEAN :
        handle_proposal_signed(cid, signer, chain_ok, json_flushed)
            /\ UNCHANGED <<pool_calls, requests, detection_result, now>>

HandleProposalExecuted ==
    \E cid \in ContractIds, executor \in EventAddresses, chain_ok \in BOOLEAN :
        handle_proposal_executed(cid, executor, chain_ok)
            /\ UNCHANGED <<pool_calls, requests, detection_result, now>>

EnsureProposalInDb ==
    \E cid \in ContractIds, chain_executed \in BOOLEAN :
        ensure_proposal_in_db(cid, chain_executed) /\ UNCHANGED <<pool_calls, requests, detection_result, now>>

Next ==
    \/ SimulateAttack
    \/ CreateManualProposal
    \/ CreateMultisigProposal
    \/ SignProposal
    \/ WithdrawProposal
    \/ RejectProposal
    \/ HandleProposalCreated
    \/ HandleProposalSigned
    \/ HandleProposalExecuted
    \/ EnsureProposalInDb

Spec == Init /\ [][Next]_vars

\* ------------------------------------------------- reward pool specification
\* The reward pool under its own operations: deposits, the two distribution
\* entry points, and Sign, whose execution runs the automatic distribution.
\* reward_pool_state.json and contributions_state.json outlive the process,
\* so the balance and the contribution records found at start-up are inputs.

\* A contribution record as _update_contribution leaves it after n
\* signatures, the last one within 10 seconds.
Contribution(n) ==
    [exists |-> TRUE, total_signatures |-> n, total_response_time |-> 5 * n,
     quality_score |-> calculate_quality_score(5, 0), last_signature_time |-> 0]

\* Contents of contributions_state.json: no record, one manager with one
\* signature, two managers with one and three signatures.
PersistedContributions ==
    {[m \in accounts |-> NoContribution],
     [m \in accounts |-> IF m = "manager_0" THEN Contribution(1) ELSE NoContribution],
     [m \in accounts |->
         IF m = "manager_0" THEN Contribution(1)
         ELSE IF m = "manager_1" THEN Contribution(3)
         ELSE NoContribution]}

\* Balances of reward_pool_state.json: empty, below and at the amount one
\* automatic distribution pays out.
PersistedPoolBalances == {0, 500000, auto_distribution_amount}

DepositAmounts == {0, 500000, 1000000}

PoolInit ==
    /\ now = 0
    /\ detection_result = NoDetection
    /\ db_proposals \in InitialTables
    /\ execution_logs = [p \in 0..MaxProposals |-> 0]
    /\ detection_logs = 0
    /\ contract_proposals = [c \in ContractIds |-> NoContractProposal]
    /\ proposal_counter = 1
    /\ contributions \in PersistedContributions
    /\ reward_pool_balance \in PersistedPoolBalances
    /\ assets = Assets(reward_pool_balance, contributions)
    /\ events_handled = 0
    /\ pool_calls = 0
    /\ requests = <<>>
    /\ last = Answer("start", TRUE, "none", "none", "none", {})

\* One more reward-pool call is served.
PoolCall ==
    /\ pool_calls < MaxPoolCalls
    /\ pool_calls' = pool_calls + 1
    /\ UNCHANGED <<requests, detection_result, now>>

DepositToRewardPool ==
    \E from_role \in {"treasury", "intruder"}, amount \in DepositAmounts,
       deposit_ok \in BOOLEAN :
        deposit_to_reward_pool(from_role, amount, deposit_ok) /\ PoolCall

TestAutoDistribute ==
    \E transfer_ok \in LedgerAnswers : test_auto_distribute(transfer_ok) /\ PoolCall

DistributeContributionRewards ==
    \E transfer_ok \in LedgerAnswers :
        distribute_contribution_rewards("manager_0", transfer_ok) /\ PoolCall

PoolNext ==
    \/ DepositToRewardPool
    \/ TestAutoDistribute
    \/ DistributeContributionRewards
    \/ SignProposal

PoolSpec == PoolInit /\ [][PoolNext]_vars


\* -------------------------------------------------- concurrent requests
\* Requests that are in the server at the same time.  uvicorn.run(app) serves
\* from one process with one event loop; every handler of main.py is an
\* `async def` coroutine, which keeps the loop from the moment it is resumed
\* until it awaits.  A handler is modelled in two parts, cut where it hands
\* work to the outside and waits for it: Sign at the ledger call of the
\* execution (at the commit when it does not execute), Withdraw at the
\* commit, the distribution at its first transfer.  Between the two parts a
\* request holds what its own database session has loaded and changed
\* (seen); the table shows it to other sessions only after the commit.

\* Whether a handler awaits at its cut, so that the loop can resume another
\* coroutine while the first one waits: the handlers of main.py call the
\* services, the ledger and the commit synchronously, without `await`.
\* handler_in_threadpool is the handler declared with `def`, which FastAPI
\* runs on worker threads.
handler_in_threadpool(op) == TRUE

handler_awaits(op) == FALSE

\* The loop resumes a coroutine whatever the others are doing.
loop_is_free_unchecked(r) == TRUE

\* The loop can resume the coroutine of request r: no other coroutine is in
\* the middle of its handler, other than suspended at an await.
loop_is_free(r) ==
    \A q \in DOMAIN requests :
        (q # r /\ requests[q].pc = "running") => handler_awaits(requests[q].op)

NoAnswer == Answer("none", FALSE, "none", "none", "none", {})

\* A request as it arrives.
Request(op, pid, role) ==
    [op |-> op, pid |-> pid, role |-> role, pc |-> "queued",
     seen |-> NoProposal, crossed |-> FALSE, sent |-> {}, answer |-> NoAnswer]

\* The handler of request r has returned or raised: the answer goes out.
Answered(r, answer) ==
    /\ requests' = [requests EXCEPT ![r].pc = "done", ![r].answer = answer]
    /\ last' = answer

\* The handler of request r has reached its cut, holding the row `row` in
\* its session.
Suspended(r, row, crossed, sent) ==
    /\ requests' = [requests EXCEPT ![r].pc = "running", ![r].seen = row,
                                    ![r].crossed = crossed, ![r].sent = sent]
    /\ UNCHANGED last

\* POST /api/proposals/{id}/sign up to the threshold test: the checks, the
\* contract's sign_proposal (which changes the in-process contract at once),
\* the append and the count, made on the session's row.
sign_begin(r, response_time_seconds, contract_reward_ok, json_flushed) ==
    LET q == requests[r]
        before == StatusOf(q.pid)
        row == db_proposals[q.pid]
        linked == row.contract_proposal_id # 0
        ms == contract_sign_proposal(row.contract_proposal_id, q.role,
                                     response_time_seconds, contract_reward_ok)
        Fail(err, detail) ==
            /\ Answered(r, Failure("sign_proposal", err, detail))
            /\ UNCHANGED state
    IN /\ q.op = "sign_proposal"
       /\ q.pc = "queued"
       /\ loop_is_free(r)
       /\ IF ~sign_role_is_valid(q.role) THEN Fail("invalid_manager_role", "none")
          ELSE IF before = "absent" THEN Fail("proposal_not_found", "none")
          ELSE IF ~is_pending(before) THEN Fail("status_not_signable", before)
          ELSE IF has_signed(row, q.role) THEN Fail("already_signed", "none")
          ELSE IF linked /\ ~ms.success /\ MentionsNotAuthorized(ms.error)
          THEN Fail("no_permission", "none")
          ELSE LET signed_by == Append(row.signed_by, q.role)
                   signed == [row EXCEPT
                                 !.signed_by = stored_signed_by(row.signed_by,
                                                   q.role, json_flushed),
                                 !.signatures_count = Len(signed_by)]
               IN /\ contract_proposals' =
                         IF linked THEN ms.proposals ELSE contract_proposals
                  /\ contributions' =
                         IF linked THEN ms.contributions ELSE contributions
                  /\ assets' =
                         [assets EXCEPT !.contributions_state =
                             IF linked THEN ms.contributions_state ELSE @]
                  /\ Suspended(r, signed, threshold_reached(signed),
                               IF linked THEN ms.sent ELSE {})
                  /\ UNCHANGED <<db_proposals, execution_logs, detection_logs,
                                 proposal_counter, reward_pool_balance,
                                 events_handled>>

\* The rest of the Sign handler: _execute_approved_proposal when the
\* threshold was reached, the status, the commit of the session's row.
sign_finish(r, reward_ok, transfer_ok) ==
    LET q == requests[r]
        ex == execute_approved_proposal(q.seen, q.pid, q.role, contributions,
                                        reward_pool_balance, reward_ok,
                                        transfer_ok)
    IN /\ q.op = "sign_proposal"
       /\ q.pc = "running"
       /\ loop_is_free(r)
       /\ db_proposals' =
              [db_proposals EXCEPT ![q.pid] =
                  IF q.crossed
                  THEN [ex.row EXCEPT !.status = "approved", !.approved_at = TRUE]
                  ELSE q.seen]
       /\ execution_logs' =
              IF q.crossed THEN [execution_logs EXCEPT ![ex.log] = @ + 1]
              ELSE execution_logs
       /\ reward_pool_balance' =
              IF q.crossed THEN ex.balance ELSE reward_pool_balance
       /\ assets' =
              [assets EXCEPT !.reward_pool_state =
                  IF q.crossed /\ ex.saved
                  THEN save_reward_pool_state(ex.balance) ELSE @]
       /\ Answered(r, Answer("sign_proposal", TRUE, "none", "none",
                             IF q.crossed THEN "approved_and_executed"
                             ELSE "signed",
                             q.sent \cup (IF q.crossed THEN ex.sent ELSE {})))
       /\ UNCHANGED <<detection_logs, contract_proposals, proposal_counter,
                      contributions, events_handled>>

\* POST /api/proposals/{id}/withdraw up to the commit.
withdraw_begin(r) ==
    LET q == requests[r]
        before == StatusOf(q.pid)
        Fail(err, detail) ==
            Answered(r, Failure("withdraw_proposal", err, detail))
    IN /\ q.op = "withdraw_proposal"
       /\ q.pc = "queued"
       /\ loop_is_free(r)
       /\ IF q.role = "" THEN Fail("operator_role_required", "none")
          ELSE IF before = "absent" THEN Fail("proposal_not_found", "none")
          ELSE IF ~is_pending(before) THEN Fail("status_not_withdrawable", before)
          ELSE IF ~may_withdraw(q.role) THEN Fail("only_operators", "none")
          ELSE Suspended(r, [db_proposals[q.pid] EXCEPT !.status = "withdrawn"],
                         FALSE, {})
       /\ UNCHANGED state

\* The commit of the Withdraw handler.
withdraw_finish(r) ==
    LET q == requests[r]
    IN /\ q.op = "withdraw_proposal"
       /\ q.pc = "running"
       /\ loop_is_free(r)
       /\ db_proposals' = [db_proposals EXCEPT ![q.pid] = q.seen]
       /\ Answered(r, Answer("withdraw_proposal", TRUE, "none", "none",
                             "withdrawn", {}))
       /\ UNCHANGED <<execution_logs, detection_logs, contract_proposals,
                      proposal_counter, contributions, reward_pool_balance,
                      events_handled, assets>>

\* POST /api/proposals/{id}/reject: the handler raises before it has
\* anything to wait for.
reject_call(r) ==
    LET q == requests[r]
    IN /\ q.op = "reject_proposal"
       /\ q.pc = "queued"
       /\ loop_is_free(r)
       /\ reject_proposal(q.pid, q.role)
       /\ requests' = [requests EXCEPT ![r].pc = "done", ![r].answer = last']

\* POST /api/test/auto-distribute up to its first transfer: the contribution
\* records are read and the balance is tested.
auto_distribute_begin(r) ==
    LET q == requests[r]
        d == auto_distribute_on_execution(contributions, reward_pool_balance, 0,
                                          valid_managers)
    IN /\ q.op = "test_auto_distribute"
       /\ q.pc = "queued"
       /\ loop_is_free(r)
       /\ IF d.sent = {}
          THEN Answered(r, Answer("test_auto_distribute", TRUE, "none", "none",
                                  IF d.success THEN "distributed"
                                  ELSE "not_distributed", {}))
          ELSE Suspended(r, NoProposal, FALSE, {})
       /\ UNCHANGED state

\* The transfers of the distribution and `reward_pool_balance -=
\* total_distributed`, which subtracts from the balance as it is then.  The
\* shares are those of a run whose balance test has passed.
auto_distribute_finish(r, transfer_ok) ==
    LET q == requests[r]
        d == auto_distribute_on_execution(contributions, auto_min_pool_balance,
                                          0, transfer_ok)
    IN /\ q.op = "test_auto_distribute"
       /\ q.pc = "running"
       /\ loop_is_free(r)
       /\ reward_pool_balance' =
              reward_pool_balance - SumAmounts({t \in d.sent : t.ok})
       /\ assets' =
              [assets EXCEPT !.reward_pool_state =
                  save_reward_pool_state(reward_pool_balance')]
       /\ Answered(r, Answer("test_auto_distribute", TRUE, "none", "none",
                             "distributed", d.sent))
       /\ UNCHANGED <<db_proposals, execution_logs, detection_logs,
                      contract_proposals, proposal_counter, contributions,
                      events_handled>>

\* What the requests in the server ask: Sign by each manager, Withdraw by an
\* operator, Reject by a manager, all of proposal 1, and a distribution.
RequestKinds ==
    <<Request("sign_proposal", 1, "manager_0"),
      Request("sign_proposal", 1, "manager_1"),
      Request("sign_proposal", 1, "manager_2"),
      Request("withdraw_proposal", 1, "operator_0"),
      Request("reject_proposal", 1, "manager_0"),
      Request("test_auto_distribute", 0, "")>>

\* The pool balance at the moment the requests arrive.
RacePoolBalance == 1500000

\* The requests arrive at a server that holds one pending, unsigned
\* proposal, with or without a live contract proposal, a pool of 1.5 ETH and
\* one manager with a signature on record.  The order in which requests are
\* numbered does not matter, so they are numbered by kind.
RaceInit ==
    /\ now = 0
    /\ detection_result = NoDetection
    /\ \E linked \in BOOLEAN :
          /\ db_proposals =
                 [p \in ProposalIds |->
                     IF p = 1
                     THEN IF linked THEN Proposal(1, "system") ELSE Proposal(0, "")
                     ELSE NoProposal]
          /\ contract_proposals =
                 [c \in ContractIds |->
                     IF linked /\ c = 1 THEN ContractProposal(proposal_reward)
                     ELSE NoContractProposal]
          /\ proposal_counter = IF linked THEN 2 ELSE 1
    /\ execution_logs = [p \in 0..MaxProposals |-> 0]
    /\ detection_logs = 0
    /\ contributions =
           [m \in accounts |->
               IF m = "manager_0" THEN Contribution(1) ELSE NoContribution]
    /\ reward_pool_balance = RacePoolBalance
    /\ assets = Assets(reward_pool_balance, contributions)
    /\ events_handled = 0
    /\ pool_calls = 0
    /\ requests \in
           {[i \in 1..MaxRequests |-> RequestKinds[k[i]]] :
               k \in {f \in [1..MaxRequests -> DOMAIN RequestKinds] :
                         \A i, j \in 1..MaxRequests : i < j => f[i] <= f[j]}}
    /\ last = Answer("start", TRUE, "none", "none", "none", {})

SignBegin ==
    \E r \in DOMAIN requests, rt \in ResponseTimes,
       contract_reward_ok \in BOOLEAN, json_flushed \in BOOLEAN :
        sign_begin(r, rt, contract_reward_ok, json_flushed) /\ UNCHANGED <<pool_calls, detection_result, now>>

SignFinish ==
    \E r \in DOMAIN requests, reward_ok \in BOOLEAN, transfer_ok \in LedgerAnswers :
        sign_finish(r, reward_ok, transfer_ok) /\ UNCHANGED <<pool_calls, detection_result, now>>

WithdrawBegin == \E r \in DOMAIN requests : withdraw_begin(r) /\ UNCHANGED <<pool_calls, detection_result, now>>

WithdrawFinish == \E r \in DOMAIN requests : withdraw_finish(r) /\ UNCHANGED <<pool_calls, detection_result, now>>

RejectCall == \E r \in DOMAIN requests : reject_call(r) /\ UNCHANGED <<pool_calls, detection_result, now>>

AutoDistributeBegin ==
    \E r \in DOMAIN requests : auto_distribute_begin(r) /\ UNCHANGED <<pool_calls, detection_result, now>>

AutoDistributeFinish ==
    \E r \in DOMAIN requests, transfer_ok \in LedgerAnswers :
        auto_distribute_finish(r, transfer_ok) /\ UNCHANGED <<pool_calls, detection_result, now>>

RaceNext ==
    \/ SignBegin
    \/ SignFinish
    \/ WithdrawBegin
    \/ WithdrawFinish
    \/ RejectCall
    \/ AutoDistributeBegin
    \/ AutoDistributeFinish

RaceSpec == RaceInit /\ [][RaceNext]_vars

\* ------------------------------------------------ detection specification
\* The threat model's verdicts and what handling them does to the proposals.
AttackTypes == {"DDoS", "PortScan"}

\* Confidences in thousandths, around the three thresholds.
Confidences ==
    {0, 500, 699, 700, 701, 750, 799, 800, 801, 850, 899, 900, 901, 950, 990, 1000}

\* POST /api/attack/simulate: a sample is classified and the verdict is
\* handled.  The binary classifier answers with its more probable class, so
\* a Benign verdict has a confidence of at least one half.
DetectAttack ==
    \E binary_pred \in {0, 1}, attack_type \in AttackTypes, confidence \in Confidences :
        LET verdict == predict_threat(binary_pred, attack_type, confidence)
        IN /\ binary_pred = 0 => confidence >= 500
           /\ simulate_attack(verdict.response_level)
           /\ detection_result' = verdict
           /\ UNCHANGED <<pool_calls, requests, now>>

DetectNext ==
    \/ DetectAttack
    \/ CreateManualProposal
    \/ SignProposal

DetectSpec == Init /\ [][DetectNext]_vars

\* ------------------------------------------- contribution specification
\* The contribution records under signatures made at different times.  The
\* clock moves between calls; a signature's latency is the time since the
\* contract proposal was created.  contributions_state.json outlives the
\* process, so the records found at start-up are an input; their
\* signatures were made before the clock's start.
ClockValues ==
    {10, 11, 30, 31, 60, 61, 120, 121, 300, 301, 3601}

TrackerInit ==
    /\ now = 0
    /\ detection_result = NoDetection
    /\ db_proposals = [p \in ProposalIds |->
                          IF p = 1 THEN Proposal(1, "system") ELSE NoProposal]
    /\ execution_logs = [p \in 0..MaxProposals |-> 0]
    /\ detection_logs = 0
    /\ contract_proposals = [c \in ContractIds |-> NoContractProposal]
    /\ proposal_counter = 1
    /\ contributions \in PersistedContributions
    /\ reward_pool_balance = startup_pool_target
    /\ assets = Assets(reward_pool_balance, contributions)
    /\ events_handled = 0
    /\ pool_calls = 0
    /\ requests = <<>>
    /\ last = Answer("start", TRUE, "none", "none", "none", {})

\* Time passes between two calls.
Tick ==
    /\ \E t \in ClockValues : t > now /\ now' = t
    /\ last' = Answer("tick", TRUE, "none", "none", "none", {})
    /\ UNCHANGED state
    /\ UNCHANGED <<pool_calls, requests, detection_result>>

\* datetime.now() - datetime.fromisoformat(proposal["created_at"]) for the
\* contract proposal a row is linked to (0 when there is none: the contract
\* refuses the signature and measures nothing).
response_time_seconds(pid) ==
    LET cid == db_proposals[pid].contract_proposal_id
    IN IF cid \in ContractIds /\ contract_proposals[cid].exists
       THEN now - contract_proposals[cid].created_at
       ELSE 0

\* POST /api/proposals/{id}/sign at the current time, with a ledger that
\* confirms every transfer.
TimedSignProposal ==
    \E pid \in ProposalIds, role \in valid_managers :
        /\ sign_proposal(pid, role, response_time_seconds(pid),
                         TRUE, TRUE, valid_managers, TRUE)
        /\ UNCHANGED <<pool_calls, requests, detection_result, now>>

TrackerNext ==
    \/ Tick
    \/ CreateMultisigProposal
    \/ TimedSignProposal

TrackerSpec == TrackerInit /\ [][TrackerNext]_vars

\* -------------------------------------------------- durability specification
\* The state files across a stop and start of the process.  The database
\* outlives the process; the contract object does not, and is built again
\* from the two state files.
\* MultiSigContract.__init__ of a new process: no proposals, the counter at
\* 1, the balance and the contribution records as the state files hold them.
multisig_contract_init ==
    /\ contract_proposals' = [c \in ContractIds |-> NoContractProposal]
    /\ proposal_counter' = 1
    /\ reward_pool_balance' = assets.reward_pool_state
    /\ contributions' = assets.contributions_state
    /\ last' = Answer("restart", TRUE, "none", "none", "none", {})
    /\ UNCHANGED <<db_proposals, execution_logs, detection_logs,
                   events_handled, assets>>

\* backend/assets stops or starts taking writes (a full or read-only file
\* system): open(state_file, 'w') raises while it does not.
assets_fault ==
    /\ assets' = [assets EXCEPT !.writable = ~@]
    /\ last' = Answer("assets_fault", TRUE, "none", "none", "none", {})
    /\ UNCHANGED <<db_proposals, execution_logs, detection_logs,
                   contract_proposals, proposal_counter, contributions,
                   reward_pool_balance, events_handled>>

DurableInit ==
    /\ now = 0
    /\ detection_result = NoDetection
    /\ db_proposals = [p \in ProposalIds |->
                          IF p = 1 THEN Proposal(1, "system") ELSE NoProposal]
    /\ execution_logs = [p \in 0..MaxProposals |-> 0]
    /\ detection_logs = 0
    /\ contract_proposals = [c \in ContractIds |-> NoContractProposal]
    /\ proposal_counter = 1
    /\ contributions \in PersistedContributions
    /\ reward_pool_balance \in PersistedPoolBalances
    /\ assets = Assets(reward_pool_balance, contributions)
    /\ events_handled = 0
    /\ pool_calls = 0
    /\ requests = <<>>
    /\ last = Answer("start", TRUE, "none", "none", "none", {})

Restart ==
    multisig_contract_init /\ UNCHANGED <<pool_calls, requests, detection_result, now>>

AssetsFault ==
    assets_fault /\ UNCHANGED <<pool_calls, requests, detection_result, now>>

DurableNext ==
    \/ Restart
    \/ AssetsFault
    \/ CreateMultisigProposal
    \/ TimedSignProposal
    \/ TestAutoDistribute
    \/ DistributeContributionRewards

DurableSpec == DurableInit /\ [][DurableNext]_vars

\* ------------------------------------------------ two-proposal specification
\* A table with two proposals, one linked to the contract and one not, for
\* what a call on one proposal leaves of the other.
FrameIds == 1..(MaxProposals + 1)

FrameInit ==
    /\ now = 0
    /\ detection_result = NoDetection
    /\ db_proposals = [p \in FrameIds |->
                          IF p = 1 THEN Proposal(1, "system") ELSE Proposal(0, "")]
    /\ execution_logs = [p \in {0} \cup FrameIds |-> 0]
    /\ detection_logs = 0
    /\ contract_proposals = [c \in ContractIds |-> NoContractProposal]
    /\ proposal_counter = 1
    /\ contributions \in PersistedContributions
    /\ reward_pool_balance \in PersistedPoolBalances
    /\ assets = Assets(reward_pool_balance, contributions)
    /\ events_handled = 0
    /\ pool_calls = 0
    /\ requests = <<>>
    /\ last = Answer("start", TRUE, "none", "none", "none", {})

\* Sign of either proposal, with a ledger that confirms every transfer.
FrameSignProposal ==
    \E pid \in FrameIds, role \in valid_managers, rt \in ResponseTimes :
        /\ sign_proposal(pid, role, rt, TRUE, TRUE, valid_managers, TRUE)
        /\ UNCHANGED <<pool_calls, requests, detection_result, now>>

\* Withdraw of either proposal.
FrameWithdrawProposal ==
    \E pid \in FrameIds, role \in RequestRoles :
        withdraw_proposal(pid, role) /\ UNCHANGED <<pool_calls, requests, detection_result, now>>

FrameNext ==
    \/ CreateMultisigProposal
    \/ FrameSignProposal
    \/ FrameWithdrawProposal

FrameSpec == FrameInit /\ [][FrameNext]_vars

\* ------------------------------------------------------------------ claims
Present(pid) == db_proposals[pid].status # "absent"

\* The step is the call Sign(pid, role).  (The test of last'.op is implied
\* by sign_proposal; it comes first to spare the evaluation of the handler on
\* the steps of other operations.)
SignStep(pid, role) ==
    /\ last'.op = "sign_proposal"
    /\ SignCall(pid, role)

\* The step is the call Withdraw(pid, role).
WithdrawStep(pid, role) ==
    /\ last'.op = "withdraw_proposal"
    /\ withdraw_proposal(pid, role)

\* The step is the call Reject(pid, role).
RejectStep(pid, role) ==
    /\ last'.op = "reject_proposal"
    /\ reject_proposal(pid, role)

\* The base-reward transfers among the send_reward calls of one API call:
\* the one of ProposalService._execute_approved_proposal and the one of
\* MultiSigContract._execute_proposal.
BaseRewards(sent) ==
    {t \in sent : t.origin \in {"service_execute", "contract_execute"}}

C2_CountMatchesSignatures ==
    /\ \A pid \in ProposalIds :
          Present(pid) =>
              /\ db_proposals[pid].signatures_count
                     = Cardinality(Range(db_proposals[pid].signed_by))
              /\ Len(db_proposals[pid].signed_by)
                     = Cardinality(Range(db_proposals[pid].signed_by))
    /\ \A cid \in ContractIds :
          contract_proposals[cid].signature_count
              = Cardinality(contract_proposals[cid].signatures)

\* C3: a Sign call by a role that is already in the proposal's signed_by
\* fails, and the table, the contract's proposals, the contribution records
\* and the pool balance are after the call what they were before it.
C3_SecondSignatureIsRefused ==
    [][\A pid \in ProposalIds, role \in RequestRoles :
          ( /\ Present(pid)
            /\ role \in Range(db_proposals[pid].signed_by)
            /\ SignStep(pid, role) )
          => (~last'.ok /\ UNCHANGED state)]_vars

\* C3 witness: a pending proposal refused a second signature of one of its
\* signers.
C3_Witness ==
    /\ last.op = "sign_proposal"
    /\ last.err = "already_signed"
    /\ \E pid \in ProposalIds :
          /\ db_proposals[pid].status = "pending"
          /\ db_proposals[pid].signatures_count = 1

C5_NotPendingIsRefused ==
    [][\A pid \in ProposalIds, role \in RequestRoles :
          ( /\ Present(pid)
            /\ StatusOf(pid) # "pending"
            /\ \/ sign_role_is_valid(role) /\ SignStep(pid, role)
               \/ role # "" /\ WithdrawStep(pid, role) )
          => ( /\ ~last'.ok
               /\ last'.err \in {"status_not_signable", "status_not_withdrawable"}
               /\ last'.detail = StatusOf(pid)
               /\ UNCHANGED state )]_vars

\* C5 witness: a Sign refused on an approved proposal.
C5_Witness ==
    /\ last.op = "sign_proposal"
    /\ last.err = "status_not_signable"
    /\ last.detail = "approved"

C7_FinalSignerIsRewarded ==
    [][\A pid \in ProposalIds, role \in valid_managers :
          ( /\ StatusOf(pid) = "pending"
            /\ SignStep(pid, role)
            /\ last'.ok )
          => LET row == db_proposals[pid]
                 after == db_proposals'[pid]
             IN /\ after.signatures_count = Len(row.signed_by) + 1
                /\ \A t \in BaseRewards(last'.sent) : t.to = role
                /\ IF after.signatures_count >= after.signatures_required
                   THEN /\ after.status = "approved"
                        /\ \E t \in last'.sent :
                              /\ t.origin = "service_execute"
                              /\ t.ref = pid
                              /\ t.to = role
                              /\ t.amount = proposal_reward
                   ELSE /\ after.status = "pending"
                        /\ BaseRewards(last'.sent) = {}]_vars

\* C7 witness: the second signature of a proposal without contract proposal
\* approved it, and the reward went to the second signer.
C7_Witness ==
    /\ last.op = "sign_proposal"
    /\ last.result = "approved_and_executed"
    /\ \E pid \in ProposalIds :
          /\ db_proposals[pid].status = "approved"
          /\ db_proposals[pid].contract_proposal_id = 0
          /\ Len(db_proposals[pid].signed_by) = 2
          /\ db_proposals[pid].reward_recipient = db_proposals[pid].signed_by[2]
          /\ \E t \in last.sent :
                /\ t.origin = "service_execute"
                /\ t.ok
                /\ t.to = db_proposals[pid].signed_by[2]

C9_FailedTransferLeavesPending ==
    [][\A pid \in ProposalIds :
          ( /\ last'.op = "sign_proposal"
            /\ \E t \in last'.sent :
                  t.origin = "service_execute" /\ t.ref = pid /\ ~t.ok )
          => ( /\ db_proposals'[pid].status = "pending"
               /\ Len(db_proposals'[pid].signed_by)
                      = Len(db_proposals[pid].signed_by) + 1
               /\ ~last'.ok )]_vars

\* C10: Reject by any one of the three managers on a pending proposal
\* succeeds and sets its status to rejected, whatever its signature count.
C10_RejectVetoes ==
    [][\A pid \in ProposalIds, role \in valid_managers :
          (StatusOf(pid) = "pending" /\ RejectStep(pid, role))
          => (last'.ok /\ db_proposals'[pid].status = "rejected")]_vars

\* C11: Withdraw on a pending proposal by a requester who is not the one
\* that created it fails with the authorization error and leaves the
\* proposal pending.
C11_OnlyCreatorWithdraws ==
    [][\A pid \in ProposalIds, role \in RequestRoles :
          ( /\ StatusOf(pid) = "pending"
            /\ role # db_proposals[pid].created_by
            /\ WithdrawStep(pid, role) )
          => ( /\ ~last'.ok
               /\ last'.err \in {"only_operators", "operator_role_required"}
               /\ db_proposals'[pid].status = "pending" )]_vars

\* The transfers of a call that pay out a distribution.
DistributionTransfers(sent) ==
    {t \in sent : t.origin \in {"auto_distribute", "contract_distribute"}}

\* The step runs a distribution: one of the two entry points, or a Sign call
\* (whose execution runs the automatic distribution).
DistributionStep ==
    last'.op \in {"test_auto_distribute", "distribute_contribution_rewards",
                  "sign_proposal"}

\* C16: after any sequence of deposits, proposal executions and reward
\* distributions the reward pool balance is not negative.
C16_PoolNeverNegative == reward_pool_balance >= 0

\* C16 witness: a distribution has paid out the whole balance.
C16_Witness ==
    /\ last.op = "test_auto_distribute"
    /\ \E t \in last.sent : t.ok
    /\ reward_pool_balance = 0

\* C17: a distribution leaves the pool balance at what it was minus the sum
\* of the transfers the ledger confirmed; a transfer the ledger refused is
\* not subtracted, and the managers with signatures on record still each get
\* their transfer attempted.
C17_DebitIsConfirmedTransfers ==
    [][DistributionStep =>
          LET dist == DistributionTransfers(last'.sent)
          IN /\ reward_pool_balance' =
                    reward_pool_balance - SumAmounts({t \in dist : t.ok})
             /\ (\E t \in dist : ~t.ok) =>
                    \A m \in valid_managers :
                        contributions'[m].total_signatures > 0
                            => \E t \in dist : t.to = m]_vars

\* C17 witness: a distribution in which the ledger confirmed one transfer and
\* refused another.
C17_Witness ==
    /\ last.op \in {"test_auto_distribute", "distribute_contribution_rewards"}
    /\ \E t, u \in DistributionTransfers(last.sent) : t.ok /\ ~u.ok

\* C18: every confirmed base-reward transfer of a proposal execution lowers
\* the reward pool balance by proposal_reward (next to what the distribution
\* of the same call pays out).
C18_BaseRewardDebitsPool ==
    [][\A t \in last'.sent :
          (t.origin = "service_execute" /\ t.ok)
          => reward_pool_balance' =
                 reward_pool_balance - proposal_reward
                 - SumAmounts({d \in DistributionTransfers(last'.sent) : d.ok})]_vars

\* C19: a distribution splits min(pool balance, default disbursement amount):
\* with a positive balance and a manager with signatures on record it sends
\* transfers that add up to that amount (up to the rounding of the shares),
\* also when the balance is below the default amount.
C19_SplitsWhatThePoolHolds ==
    [][( /\ last'.op \in {"test_auto_distribute", "distribute_contribution_rewards"}
         /\ reward_pool_balance > 0
         /\ \E m \in valid_managers : contributions[m].total_signatures > 0 )
       => LET disbursement ==
                  IF reward_pool_balance < auto_distribution_amount
                  THEN reward_pool_balance ELSE auto_distribution_amount
              split == SumAmounts(DistributionTransfers(last'.sent))
          IN split <= disbursement
             /\ split >= disbursement - Cardinality(valid_managers)]_vars

\* C20: in every distribution the amounts are in the proportion of the
\* managers' contribution scores min(100, total_signatures * 10) * 0.5 +
\* quality_score * 0.5 (up to the rounding of the shares), whichever entry
\* point runs it.
C20_SharesFollowContributionScore ==
    [][\A t, u \in DistributionTransfers(last'.sent) :
          LET st == calculate_contribution_score(
                        contributions'[t.to].total_signatures,
                        contributions'[t.to].quality_score)
              su == calculate_contribution_score(
                        contributions'[u.to].total_signatures,
                        contributions'[u.to].quality_score)
              diff == t.amount * su - u.amount * st
          IN -su < diff /\ diff < st]_vars

\* The Sign requests on proposal pid that have been answered with success.
OkSigns(pid) ==
    {r \in DOMAIN requests :
        /\ requests[r].op = "sign_proposal"
        /\ requests[r].pid = pid
        /\ requests[r].pc = "done"
        /\ requests[r].answer.ok}

\* C12: when two distinct managers' Sign requests on the same pending
\* proposal are in the server together and both are answered with success,
\* both roles are in the stored signer list and the stored count is the
\* number of successful Signs: no signature is lost or counted twice.
C12_ConcurrentSignaturesKept ==
    \A pid \in ProposalIds : \A r1, r2 \in OkSigns(pid) :
        requests[r1].role # requests[r2].role
        => /\ requests[r1].role \in Range(db_proposals[pid].signed_by)
           /\ requests[r2].role \in Range(db_proposals[pid].signed_by)
           /\ db_proposals[pid].signatures_count =
                  Cardinality({requests[r].role : r \in OkSigns(pid)})

\* The Sign requests on proposal pid whose handler has reached the threshold
\* and gone into _execute_approved_proposal: in flight or finished.
ExecutionAttempts(pid) ==
    {r \in DOMAIN requests :
        /\ requests[r].op = "sign_proposal"
        /\ requests[r].pid = pid
        /\ requests[r].crossed
        /\ requests[r].pc \in {"running", "done"}}

\* The base-reward transfers that the answered requests report for pid.
BaseRewardTransfers(pid) ==
    {<<r, t>> \in (DOMAIN requests) \X
                  (UNION {requests[q].answer.sent : q \in DOMAIN requests}) :
        /\ t \in requests[r].answer.sent
        /\ t.origin = "service_execute"
        /\ t.ref = pid}

\* C13: however the Sign requests on one proposal are served, at most one of
\* them starts an execution attempt: while one is in flight no other request
\* has started a second one, and the proposal is never executed twice (one
\* execution log, one base-reward transfer).
C13_ExecutedAtMostOnce ==
    \A pid \in ProposalIds :
        /\ Cardinality(ExecutionAttempts(pid)) <= 1
        /\ execution_logs[pid] <= 1
        /\ Cardinality(BaseRewardTransfers(pid)) <= 1

\* An execution attempt is in flight while another manager's Sign request on
\* the same proposal is waiting to be served.
C13_Witness ==
    \E r, q \in DOMAIN requests :
        /\ r \in ExecutionAttempts(1)
        /\ requests[r].pc = "running"
        /\ requests[q].op = "sign_proposal"
        /\ requests[q].pid = 1
        /\ requests[q].role # requests[r].role
        /\ requests[q].pc = "queued"

\* The handler of request r is entered in this step, on a proposal that has
\* already left pending.
ServedLate(r, ops) ==
    /\ requests[r].op \in ops
    /\ requests[r].pc = "queued"
    /\ requests'[r].pc # "queued"
    /\ StatusOf(requests[r].pid) \notin {"absent", "pending"}

\* The request is refused with an error that tells the caller the status the
\* proposal is in.
RefusedAsConflict(r) ==
    /\ requests'[r].pc = "done"
    /\ ~requests'[r].answer.ok
    /\ requests'[r].answer.err \in
           {"status_not_withdrawable", "status_not_rejectable"}
    /\ requests'[r].answer.detail = StatusOf(requests[r].pid)

\* C14: when Withdraw or Reject races with other requests and is served
\* after the proposal has left pending (a Sign has reached the threshold),
\* it is refused with a conflict error naming the status, and a proposal that has been executed is never in status
\* withdrawn or rejected.
C14_LateWithdrawOrRejectConflicts ==
    /\ [][\A r \in DOMAIN requests :
              ServedLate(r, {"withdraw_proposal", "reject_proposal"})
              => RefusedAsConflict(r)]_vars
    /\ [](\A pid \in ProposalIds :
              execution_logs[pid] > 0
              => StatusOf(pid) \notin {"withdrawn", "rejected"})

\* What the distribution run by request r has transferred: the confirmed
\* transfers in its answer.
DistributedBy(r) ==
    SumAmounts({t \in DistributionTransfers(requests[r].answer.sent) : t.ok})

\* C15: however the distributions that are in the server together are
\* served (distribution requests and the distribution a Sign runs on
\* execution), what they have transferred in total is at most the pool
\* balance they started from, and the pool balance is that balance less the
\* confirmed transfers.
C15_NoDoubleSpend ==
    LET paid == SumOver([r \in DOMAIN requests |-> DistributedBy(r)],
                        DOMAIN requests)
    IN /\ paid <= RacePoolBalance
       /\ reward_pool_balance = RacePoolBalance - paid

\* Two distribution requests were in the server together; one has paid out
\* and the other has been answered without a transfer.
C15_Witness ==
    \E r, q \in DOMAIN requests :
        /\ r # q
        /\ requests[r].op = "test_auto_distribute"
        /\ requests[q].op = "test_auto_distribute"
        /\ requests[r].pc = "done"
        /\ requests[q].pc = "done"
        /\ DistributedBy(r) > 0
        /\ requests[q].answer.sent = {}
        /\ reward_pool_balance = RacePoolBalance - DistributedBy(r)

\* C21: when no manager has a signature on record, a distribution reports
\* success, makes no transfer and leaves the pool balance as it was,
\* whatever the balance is.
C21_NoSignaturesIsNoOp ==
    [][(/\ last'.op \in {"test_auto_distribute", "distribute_contribution_rewards"}
        /\ \A m \in valid_managers : contributions[m].total_signatures = 0)
       => /\ last'.result = "distributed"
          /\ last'.sent = {}
          /\ reward_pool_balance' = reward_pool_balance]_vars

\* C22: for a verdict that is not Benign the response tier follows from the
\* confidence by strict comparisons: above 0.90 automatic_response, else
\* above 0.80 auto_create_proposal, else above 0.70 manual_decision_alert,
\* else the logging tier; 0.90, 0.80 and 0.70 themselves fall to the lower
\* tier.
C22_TierFollowsConfidence ==
    LET c == detection_result.confidence
    IN detection_result.predicted_class \notin {"none", "Benign"}
       => detection_result.response_level =
              IF c > 900 THEN "automatic_response"
              ELSE IF c > 800 THEN "auto_create_proposal"
              ELSE IF c > 700 THEN "manual_decision_alert"
              ELSE "silent_logging"

\* An attack verdict with confidence exactly 0.90 was given the proposal
\* tier.
C22_Witness ==
    /\ detection_result.predicted_class = "DDoS"
    /\ detection_result.confidence = 900
    /\ detection_result.response_level = "auto_create_proposal"

\* C23: a Benign verdict gets the logging tier whatever its confidence, and
\* handling it makes neither an automatic block nor a proposal.
C23_BenignIsLoggedOnly ==
    [][(last'.op = "simulate_attack" /\ detection_result'.predicted_class = "Benign")
       => /\ detection_result'.response_level = "silent_logging"
          /\ execution_logs' = execution_logs
          /\ db_proposals' = db_proposals]_vars

\* The rows of the table that are not in it before the step.
NewProposals == {p \in ProposalIds : ~Present(p) /\ db_proposals'[p].status # "absent"}

\* C24: handling a verdict whose tier is not auto_create_proposal
\* (automatic_response, manual_decision_alert, the logging tier) leaves the
\* proposals as they were, in the table and in the contract.
C24_OnlyProposalTierCreates ==
    [][(/\ last'.op = "simulate_attack"
        /\ detection_result'.response_level # "auto_create_proposal")
       => /\ db_proposals' = db_proposals
          /\ contract_proposals' = contract_proposals
          /\ proposal_counter' = proposal_counter]_vars

\* A DDoS verdict at 0.95 has been answered with an automatic block, or one
\* at 0.75 with an alert.
C24_Witness ==
    /\ last.op = "simulate_attack"
    /\ last.ok
    /\ detection_result.predicted_class = "DDoS"
    /\ \/ /\ detection_result.confidence = 950
          /\ last.result = "automatic_block"
       \/ /\ detection_result.confidence = 750
          /\ last.result = "manual_alert"

\* The step adds exactly one row, pending and unsigned.
OneNewPendingProposal ==
    /\ Cardinality(NewProposals) = 1
    /\ \A p \in NewProposals :
          /\ db_proposals'[p].status = "pending"
          /\ db_proposals'[p].signatures_count = 0
          /\ db_proposals'[p].signed_by = <<>>

\* C25: handling a verdict of tier auto_create_proposal adds exactly one
\* proposal to the table, pending and with no signature; so does a manual
\* creation by an operator for a detection that exists.
C25_CreationAddsPendingProposal ==
    [][/\ (/\ last'.op = "simulate_attack"
           /\ detection_result'.response_level = "auto_create_proposal")
          => OneNewPendingProposal
       /\ \A d \in 1..MaxDetections, role \in Operators :
             (/\ d <= detection_logs
              /\ FreeProposalId # 0
              /\ last'.op = "create_manual_proposal"
              /\ create_manual_proposal(d, role))
             => OneNewPendingProposal]_vars

\* In this step manager m signs contract proposal cid: the contract adds the
\* role to the proposal's signatures and calls _update_contribution.
RecordsSignature(cid, m) ==
    /\ m \notin contract_proposals[cid].signatures
    /\ m \in contract_proposals'[cid].signatures

\* The latency of a signature of contract proposal cid made now.
LatencyOf(cid) == now - contract_proposals[cid].created_at

\* C26: the activity part of the quality score a signature leaves in the
\* record follows the time since the manager's previous signature: up to 10
\* minutes 40, up to 30 minutes 30, up to 60 minutes 20, more than that 10,
\* and 40 when this is the manager's first signature.
C26_ActivityFollowsGap ==
    [][\A cid \in ContractIds, m \in valid_managers :
          RecordsSignature(cid, m)
          => LET gap == minutes_since(contributions[m].last_signature_time)
                 activity == IF ~contributions[m].exists THEN 40
                             ELSE IF gap <= 10 THEN 40
                             ELSE IF gap <= 30 THEN 30
                             ELSE IF gap <= 60 THEN 20
                             ELSE 10
             IN contributions'[m].quality_score =
                    speed_score(LatencyOf(cid)) + activity]_vars

\* C27: the speed part of the quality score is a step function of the
\* signature's latency with inclusive bounds (10 s: 60, 30 s: 50, 60 s: 40,
\* 120 s: 30, 300 s: 20, above: 10), and the quality score stored is the
\* speed part plus the activity part.
C27_SpeedStepsAndSum ==
    [][\A cid \in ContractIds, m \in valid_managers :
          RecordsSignature(cid, m)
          => LET latency == LatencyOf(cid)
                 speed == IF latency <= 10 THEN 60
                          ELSE IF latency <= 30 THEN 50
                          ELSE IF latency <= 60 THEN 40
                          ELSE IF latency <= 120 THEN 30
                          ELSE IF latency <= 300 THEN 20
                          ELSE 10
                 activity == activity_score(
                                 minutes_since(contributions'[m].last_signature_time))
             IN /\ speed_score(latency) = speed
                /\ contributions'[m].quality_score = speed + activity]_vars

\* A manager has signed exactly 300 seconds after the proposal was created
\* and has a quality score of 20 + 40.
C27_Witness ==
    \E cid \in ContractIds, m \in valid_managers :
        /\ last.op = "sign_proposal"
        /\ m \in contract_proposals[cid].signatures
        /\ contributions[m].last_signature_time = now
        /\ LatencyOf(cid) = 300
        /\ contributions[m].quality_score = 60

\* C28: every contribution record has a quality score between 20 and 100,
\* and the contribution score derived from a record is between 0 and 100
\* (the model keeps twice the score).
C28_ScoresInRange ==
    \A m \in accounts :
        /\ contributions[m].exists
           => (contributions[m].quality_score >= 20
               /\ contributions[m].quality_score <= 100)
        /\ calculate_contribution_score(contributions[m].total_signatures,
                                        contributions[m].quality_score) >= 0
        /\ calculate_contribution_score(contributions[m].total_signatures,
                                        contributions[m].quality_score) <= 2 * 100

\* A record written by a signature later than 300 seconds holds the lowest
\* quality score, next to a record of a fast signature.
C28_Witness ==
    \E m, n \in valid_managers :
        /\ contributions[m].exists
        /\ contributions[m].last_signature_time > 300
        /\ contributions[m].quality_score = 50
        /\ contributions[n].exists
        /\ contributions[n].quality_score = 100

\* The number of proposals on which manager m's signature is recorded.
SignaturesRecorded(m) ==
    Cardinality({p \in ProposalIds : m \in Range(db_proposals[p].signed_by)})

\* C29: each manager's total_signatures is the number of signatures of that
\* manager recorded on proposals, after any sequence of operations, and a
\* Sign by one manager leaves the records of the others as they were.
C29_TrackerCountsEverySignature ==
    /\ [](\A m \in valid_managers :
              contributions[m].total_signatures = SignaturesRecorded(m))
    /\ [][\A pid \in ProposalIds, role \in valid_managers :
              SignStep(pid, role)
              => \A m \in valid_managers \ {role} :
                     contributions'[m] = contributions[m]]_vars

C31_SignSuccessHidesNoFailure ==
    [][\A pid \in ProposalIds, role \in valid_managers :
          (last'.op = "sign_proposal" /\ last'.ok /\ SignStep(pid, role))
          => LET cid == db_proposals[pid].contract_proposal_id
             IN /\ \A t \in last'.sent :
                       t.origin \in {"service_execute", "contract_execute"} => t.ok
                /\ cid # 0
                   => /\ cid \in ContractIds
                      /\ role \in contract_proposals'[cid].signatures]_vars

C33_ContributionsAreDurable ==
    [][/\ (last'.op = "sign_proposal" /\ contributions' # contributions)
          => assets'.contributions_state = contributions'
       /\ last'.op = "restart" => contributions' = contributions]_vars

\* C36: reward pool debits are durable: a distribution by either entry point
\* leaves reward_pool_state.json equal to the balance in memory, and a
\* restart of the process brings back the balance it held, so that what was
\* paid out is not there to be paid out again.
C36_PoolDebitsAreDurable ==
    [][/\ (DistributionStep /\ reward_pool_balance' # reward_pool_balance)
          => assets'.reward_pool_state = reward_pool_balance'
       /\ last'.op = "restart" => reward_pool_balance' = reward_pool_balance]_vars

\* The database proposal pid and the contract proposal it is linked to agree
\* in the tables db and cp: the same signers, and approved exactly when
\* executed.
Agree(db, cp, pid) ==
    LET cid == db[pid].contract_proposal_id
    IN /\ {db[pid].signed_by[i] : i \in DOMAIN db[pid].signed_by} = cp[cid].signatures
       /\ (db[pid].status = "approved") <=> cp[cid].executed

C35_ExecutedMeansFlagSet ==
    \A cid \in ContractIds, role \in valid_managers, rt \in ResponseTimes,
       reward_ok \in BOOLEAN :
        LET ms == contract_sign_proposal(cid, role, rt, reward_ok)
        IN (ms.success /\ ms.executed) => ms.proposals[cid].executed

\* C37: a successful Withdraw changes the status of its proposal to
\* withdrawn and nothing else: the proposal's signatures and their count,
\* every other proposal, the execution logs, the contract's proposals, the
\* contribution records, the pool balance and the state files stay as they
\* were, and the call makes no transfer.
C37_WithdrawChangesStatusOnly ==
    [][\A pid \in FrameIds, role \in RequestRoles :
          ( /\ last'.op = "withdraw_proposal"
            /\ last'.ok
            /\ withdraw_proposal(pid, role) )
          => /\ db_proposals' = [db_proposals EXCEPT ![pid].status = "withdrawn"]
             /\ last'.sent = {}
             /\ UNCHANGED <<execution_logs, detection_logs, contract_proposals,
                            proposal_counter, contributions, reward_pool_balance,
                            assets>>]_vars

\* C37 witness: a signed proposal has just been withdrawn while the other
\* proposal is pending and signed, a manager has a contribution record and
\* the pool holds funds.
C37_Witness ==
    /\ last.op = "withdraw_proposal"
    /\ last.ok
    /\ \E pid, other \in FrameIds :
          /\ pid # other
          /\ db_proposals[pid].status = "withdrawn"
          /\ db_proposals[pid].signatures_count > 0
          /\ db_proposals[other].status = "pending"
          /\ db_proposals[other].signatures_count > 0
    /\ \E m \in valid_managers : contributions[m].exists
    /\ reward_pool_balance > 0

\* C38: synchronising a ProposalSigned event is idempotent: once the
\* listener has processed the event, processing the same event (same contract
\* proposal, same signer) again leaves signed_by and signatures_count of
\* every proposal as they are.
C38_SignedEventIsIdempotent ==
    [][\A cid \in ContractIds, signer \in EventAddresses, json_flushed \in BOOLEAN :
          ( /\ last'.op = "handle_proposal_signed"
            /\ handle_proposal_signed(cid, signer, TRUE, json_flushed) )
          => LET again == sync_proposal_to_db(cid, "signed", signer, TRUE,
                                              json_flushed)'
             IN \A pid \in ProposalIds :
                   /\ again[pid].signed_by = db_proposals'[pid].signed_by
                   /\ again[pid].signatures_count =
                          db_proposals'[pid].signatures_count]_vars

\* C38 witness: the listener has just added a signer to a proposal that
\* already had one.
C38_Witness ==
    /\ last.op = "handle_proposal_signed"
    /\ last.result = "synced"
    /\ \E pid \in ProposalIds :
          /\ Len(db_proposals[pid].signed_by) = 2
          /\ db_proposals[pid].signatures_count = 2

\* The transfers of the automatic distribution among those of a call.
AutoTransfers(sent) == {t \in sent : t.origin = "auto_distribute"}

\* C39: whatever becomes of the automatic distribution (no eligible manager,
\* a pool below the amount, refused transfers), the Sign that reaches the
\* threshold commits the proposal as approved and executed, and the
\* execution runs the distribution at most once: one transfer per manager at
\* most, and the pool is debited by the confirmed ones, once.
C39_DistributionNeverBlocksExecution ==
    [][\A pid \in ProposalIds, role \in valid_managers :
          ( /\ SignStep(pid, role)
            /\ last'.ok
            /\ Len(db_proposals[pid].signed_by) + 1
                   >= db_proposals[pid].signatures_required )
          => /\ db_proposals'[pid].status = "approved"
             /\ db_proposals'[pid].executed_at
             /\ execution_logs'[pid] = execution_logs[pid] + 1
             /\ last'.result = "approved_and_executed"
             /\ \A t, u \in AutoTransfers(last'.sent) : t.to = u.to => t = u
             /\ reward_pool_balance - reward_pool_balance' =
                    SumAmounts({t \in AutoTransfers(last'.sent) : t.ok})]_vars

\* C39 witness: a Sign has approved and executed a proposal although the
\* ledger refused a transfer of the automatic distribution it ran.
C39_Witness ==
    /\ last.op = "sign_proposal"
    /\ last.result = "approved_and_executed"
    /\ \E t \in AutoTransfers(last.sent) : ~t.ok
    /\ \E pid \in ProposalIds :
          /\ db_proposals[pid].status = "approved"
          /\ db_proposals[pid].executed_at

TypeOK ==
    /\ \A i \in ProposalIds :
          db_proposals[i].status \in
              {"absent", "pending", "approved", "executed", "withdrawn", "rejected"}
    /\ reward_pool_balance \in Int
    /\ proposal_counter \in 1..(MaxContract + 1)
    /\ pool_calls \in 0..MaxPoolCalls
    /\ assets.writable \in BOOLEAN
    /\ assets.reward_pool_state \in Int
    /\ DOMAIN assets.contributions_state = accounts
    /\ \A r \in DOMAIN requests :
          requests[r].pc \in {"queued", "running", "done"}

====
